---- MODULE Spec2Model ----
(***************************************************************************)
(* A model of the OCR batching subsystem of secondbrain:                   *)
(*   - ScreenshotBuffer   (capture/screenshot_buffer.py)                   *)
(*   - HybridOCR          (ocr/hybrid_ocr.py)                              *)
(*   - DeepSeekOCR        (ocr/deepseek_ocr.py)                            *)
(*   - the image combiner (capture/image_combiner.py)                      *)
(* Each component has its own specification (SpecBuffer, SpecHybrid,       *)
(* SpecBatch, SpecCombine); SpecSplit applies _split_batch_results to a     *)
(* transcript and SpecRateLimit runs concurrent callers of _rate_limit.    *)
(* The variables of the other components stay at their idle values.        *)
(***************************************************************************)
EXTENDS Integers, Sequences, FiniteSets, TLC

(***************************************************************************)
(* Bounds of the model.                                                    *)
(***************************************************************************)
\* largest max_size a ScreenshotBuffer is constructed with
MaxCap == 3
\* largest min_flush_size a ScreenshotBuffer is constructed with
MaxMinFlush == 3
\* largest duration_seconds a ScreenshotBuffer is constructed with
MaxDuration == 2
\* the clock (time.time(), in whole seconds) runs from 0 to MaxTime
MaxTime == 3
\* number of add() calls in one run
MaxAdds == 4
\* largest batch handed to HybridOCR.process_batch
MaxItems == 3
\* a ratio is RatioNum / RatioDen, with RatioNum from -1 to RatioDen + 1
RatioDen == 4
\* largest batch handed to DeepSeekOCR.process_batch
MaxBatch == 3
\* largest ocr.max_retries a DeepSeekOCR is configured with
MaxRetries == 2
\* most lines in a transcript the backend returns
MaxLines == 2
\* largest min_request_interval (60 / ocr.rate_limit_rpm), in seconds
MaxInterval == 2
\* most images handed to the combiner
MaxImages == 2
\* largest width and height of an input image, in pixels
MaxDim == 2
\* largest max_width and max_height given to the combiner
MaxCanvas == 3
\* largest spacing given to the combiner
MaxSpacing == 2
\* most lines in a transcript handed to _split_batch_results
MaxSplitLines == 4
\* most frame_ids handed to _split_batch_results
MaxFrames == 3
\* number of coroutines calling _rate_limit on one engine
MaxCallers == 2
\* number of _rate_limit calls in one run
MaxRateCalls == 3
\* the engine's clock runs up to MaxClock
MaxClock == 5
\* largest ocr.max_retries of the engine in SpecExtract
MaxExtractRetries == 3
\* number of backend calls of the concurrent callers in SpecLoader
MaxLoaderCalls == 6
\* most images laid out in a grid in SpecGrid
MaxGridImages == 5
\* largest max_width and max_height of the grid in SpecGrid
MaxGridCanvas == 8
\* largest value Config.set() stores in SpecConfig
MaxConfigValue == 0

VARIABLES
    \* ---- ScreenshotBuffer ----
    buffer,          \* self.buffer: the buffered frames, oldest first
    duration,        \* self.duration
    max_size,        \* self.max_size (also the deque's maxlen)
    min_flush_size,  \* self.min_flush_size
    last_flush,      \* self.last_flush
    now,             \* time.time()
    lastOp,          \* the method called last (or "tick": the clock moved)
    retFlag,         \* value returned by the last add()/should_flush()
    retBatch,        \* value returned by the last get_batch()/force_flush()
    framesAdded,     \* number of add() calls so far; frame k is the k-th added
    addsSinceFlush,  \* add() calls since construction or the last flush/clear
    addedAt          \* the clock at the add() of every buffered frame

VARIABLES
    \* ---- HybridOCR ----
    ratioArg,          \* the ratio given to __init__, as ratioArg / RatioDen
    self_ratio,        \* self.ratio, as self_ratio / RatioDen
    hPc,               \* where the process_batch call is
    image_paths,       \* the argument of process_batch
    primary_items,     \* list(enumerate(image_paths[:k]))
    fallback_items,    \* list(enumerate(image_paths[k:], start=k))
    primary_results,   \* what self.primary.process_batch returned
    fallback_results,  \* what self.fallback.process_batch returned
    results,           \* the merged list process_batch returns
    primaryCalls,      \* the batches handed to self.primary.process_batch
    fallbackCalls      \* the batches handed to self.fallback.process_batch

bufVars == <<buffer, duration, max_size, min_flush_size, last_flush, now,
             lastOp, retFlag, retBatch, framesAdded, addsSinceFlush, addedAt>>

hybVars == <<ratioArg, self_ratio, hPc, image_paths, primary_items,
             fallback_items, primary_results, fallback_results, results,
             primaryCalls, fallbackCalls>>

VARIABLES
    \* ---- DeepSeekOCR ----
    max_retries,           \* self.max_retries
    min_request_interval,  \* self.min_request_interval, in seconds
    last_request_time,     \* self.last_request_time
    mlx_loaded,            \* self._mlx_loaded
    dsNow,                 \* time.time() as the engine sees it
    batch,                 \* the image_paths argument of process_batch
    bPc,                   \* where the process_batch call is
    processed_results,     \* processed_results; at "done" the returned list
    fbIdx,                 \* the fallback loop's position in image_paths
    ePc,                   \* where the extract_text call is
    eItem,                 \* the item extract_text was called with
    attempt,               \* extract_text's loop variable
    eRet,                  \* the value extract_text returned
    sleeps,                \* the backoff sleeps of this extract_text call
    eOutcomes,             \* what each backend attempt of this call did
    rlCalls,               \* completed _rate_limit() calls
    backendCalls,          \* _process_via_mlx() calls
    extractCalls           \* extract_text() calls

dsVars == <<max_retries, min_request_interval, last_request_time, mlx_loaded,
            dsNow, batch, bPc, processed_results, fbIdx, ePc, eItem, attempt,
            eRet, sleeps, eOutcomes, rlCalls, backendCalls, extractCalls>>

VARIABLES
    \* ---- image combiner ----
    images,      \* the images (or the images the files hold), in input order
    strategy,    \* the strategy argument
    max_width,   \* the max_width argument
    max_height,  \* the max_height argument
    spacing,     \* the spacing argument
    opened,      \* positions of the images handed to combine_screenshots
    combined,    \* what the call returned, or that it raised
    cPc          \* the function called, "idle" before the call

combVars == <<images, strategy, max_width, max_height, spacing, opened,
              combined, cPc>>

VARIABLES
    \* ---- one call of DeepSeekOCR._split_batch_results ----
    sCombinedText,  \* the combined_text argument
    sFrameIds,      \* the frame_ids argument
    split_results,  \* the list the call returned
    sPc             \* "idle" before the call, "done" after it

splitVars == <<sCombinedText, sFrameIds, split_results, sPc>>

VARIABLES
    \* ---- concurrent callers of DeepSeekOCR._rate_limit ----
    rlPc,      \* where each caller is: "idle", "waiting" or "sleeping"
    rlLock,    \* the caller holding self._rate_limit_lock, 0 when free
    rlWakeAt   \* when each sleeping caller's asyncio.sleep is over

rateVars == <<rlPc, rlLock, rlWakeAt>>

VARIABLES
    \* ---- concurrent users of the lazily loaded model ----
    ldPc,            \* where each caller is: "idle" or "awaiting"
    mlx_model,       \* self._mlx_model: 0, or the load that produced it
    loadAttempts,    \* times mlx_load was called
    loadsCompleted,  \* times mlx_load returned a model
    usedModel        \* the model each caller's last generation ran on

loadVars == <<ldPc, mlx_model, loadAttempts, loadsCompleted, usedModel>>

VARIABLES
    \* ---- one call of _grid_layout, image by image ----
    num_images,  \* len(images)
    gMaxWidth,   \* the max_width argument
    gMaxHeight,  \* the max_height argument
    gSpacing,    \* the spacing argument
    gCols,       \* cols
    gRows,       \* rows
    gCellW,      \* cell_width
    gCellH,      \* cell_height
    gIdx,        \* images scaled and pasted so far
    gPlaced,     \* where the last image was pasted, and its scaled size
    gCells,      \* the cells (row, col) pasted into so far
    gCanvas,     \* the size of the canvas
    gPc          \* "idle", "pasting", "done" or "raised"

gridVars == <<num_images, gMaxWidth, gMaxHeight, gSpacing, gCols, gRows,
              gCellW, gCellH, gIdx, gPlaced, gCells, gCanvas, gPc>>

VARIABLES
    \* ---- one call of _convert_to_text_blocks ----
    cvText,      \* deepseek_result['result']
    cvFrameId,   \* the frame_id argument
    cvBlocks,    \* the blocks returned
    cvPc         \* "idle" or "done"

convVars == <<cvText, cvFrameId, cvBlocks, cvPc>>

VARIABLES
    \* ---- config.py: the module's DEFAULT_CONFIG and its Config objects ----
    DEFAULT_CONFIG,  \* what the module-level dict holds now
    configs,         \* per Config: created or not; per category, whether
                     \* self.config[category] is the very dict object of
                     \* DEFAULT_CONFIG[category], or else its own contents
    settings_file,   \* per Config: the file at its config_path
    cfgLast          \* the last method call

cfgVars == <<DEFAULT_CONFIG, configs, settings_file, cfgLast>>

vars == <<bufVars, hybVars, dsVars, combVars, splitVars, rateVars, loadVars,
          gridVars, convVars, cfgVars>>

\* what a step of the ScreenshotBuffer leaves alone
notBuffer == <<hybVars, dsVars, combVars, splitVars, rateVars, loadVars,
               gridVars, convVars, cfgVars>>

\* what a step of HybridOCR leaves alone
notHybrid == <<bufVars, dsVars, combVars, splitVars, rateVars, loadVars,
               gridVars, convVars, cfgVars>>

\* what a step of DeepSeekOCR leaves alone
notDeepSeek == <<bufVars, hybVars, combVars, splitVars, rateVars, loadVars,
                 gridVars, convVars, cfgVars>>

\* what a step of the image combiner leaves alone
notCombine == <<bufVars, hybVars, dsVars, splitVars, rateVars, loadVars,
                gridVars, convVars, cfgVars>>

\* what a call of _split_batch_results leaves alone
notSplit == <<bufVars, hybVars, dsVars, combVars, rateVars, loadVars,
              gridVars, convVars, cfgVars>>

\* what a step of _rate_limit leaves alone, the engine's own fields aside
notRateLimit == <<bufVars, hybVars, combVars, splitVars, loadVars, gridVars,
                  convVars, cfgVars>>

\* what a step of the model loader leaves alone, the engine's fields aside
notLoader == <<bufVars, hybVars, combVars, splitVars, rateVars, gridVars,
               convVars, cfgVars>>

\* what a step of _grid_layout leaves alone
notGrid == <<bufVars, hybVars, dsVars, combVars, splitVars, rateVars,
             loadVars, convVars, cfgVars>>

\* what a call of _convert_to_text_blocks leaves alone
notConvert == <<bufVars, hybVars, dsVars, combVars, splitVars, rateVars,
                loadVars, gridVars, cfgVars>>

\* what the methods of Config leave alone
notConfig == <<bufVars, hybVars, dsVars, combVars, splitVars, rateVars,
               loadVars, gridVars, convVars>>

(***************************************************************************)
(* ScreenshotBuffer.  A frame is identified by the pair (path, frame_id)   *)
(* that get_batch returns; frame k stands for the pair of the k-th add().  *)
(***************************************************************************)

\* collections.deque(maxlen=cap).append without the bound: a plain list append
list_append(buf, cap, f) == Append(buf, f)

\* collections.deque(maxlen=cap).append(f): when the deque already holds cap
\* items the item at the opposite (left) end is discarded
deque_append(buf, cap, f) ==
    IF cap = 0 THEN <<>>
    ELSE IF Len(buf) >= cap THEN Append(Tail(buf), f)
    ELSE Append(buf, f)

\* should_flush without the early return on an empty buffer
should_flush_no_empty_check(buf, lf, t) ==
    IF Len(buf) >= max_size THEN TRUE
    ELSE IF t - lf >= duration /\ Len(buf) >= min_flush_size THEN TRUE
    ELSE FALSE

\* should_flush whose time-based test forgets min_flush_size
should_flush_ignores_min(buf, lf, t) ==
    IF buf = <<>> THEN FALSE
    ELSE IF Len(buf) >= max_size THEN TRUE
    ELSE IF t - lf >= duration THEN TRUE
    ELSE FALSE

\* should_flush with the size test off by one
should_flush_late(buf, lf, t) ==
    IF buf = <<>> THEN FALSE
    ELSE IF Len(buf) > max_size THEN TRUE
    ELSE IF t - lf >= duration /\ Len(buf) >= min_flush_size THEN TRUE
    ELSE FALSE

\* should_flush whose time-based test wants more than duration seconds
should_flush_after_duration(buf, lf, t) ==
    IF buf = <<>> THEN FALSE
    ELSE IF Len(buf) >= max_size THEN TRUE
    ELSE IF t - lf > duration /\ Len(buf) >= min_flush_size THEN TRUE
    ELSE FALSE

\* ScreenshotBuffer.should_flush on buffer buf, last flush lf, clock t
should_flush(buf, lf, t) ==
    IF buf = <<>> THEN FALSE
    ELSE IF Len(buf) >= max_size THEN TRUE
    ELSE IF t - lf >= duration /\ Len(buf) >= min_flush_size THEN TRUE
    ELSE FALSE

\* ScreenshotBuffer.__init__: the constructor arguments are the inputs
InitBuffer ==
    /\ max_size \in 1..MaxCap
    /\ duration \in 0..MaxDuration
    /\ min_flush_size \in 0..MaxMinFlush
    /\ buffer = <<>>
    /\ now = 0
    /\ last_flush = 0
    /\ lastOp = "init"
    /\ retFlag = FALSE
    /\ retBatch = <<>>
    /\ framesAdded = 0
    /\ addsSinceFlush = 0
    /\ addedAt = <<>>

\* time passes between two calls
Tick ==
    /\ now < MaxTime
    /\ now' = now + 1
    /\ lastOp' = "tick"
    /\ retFlag' = FALSE
    /\ retBatch' = <<>>
    /\ UNCHANGED <<buffer, duration, max_size, min_flush_size, last_flush,
                   framesAdded, addsSinceFlush, addedAt>>
    /\ UNCHANGED notBuffer

\* ScreenshotBuffer.add
add ==
    /\ framesAdded < MaxAdds
    /\ framesAdded' = framesAdded + 1
    /\ addsSinceFlush' = addsSinceFlush + 1
    /\ buffer' = deque_append(buffer, max_size, framesAdded + 1)
    /\ addedAt' = deque_append(addedAt, max_size, now)
    /\ retFlag' = should_flush(buffer', last_flush, now)
    /\ retBatch' = <<>>
    /\ lastOp' = "add"
    /\ UNCHANGED <<duration, max_size, min_flush_size, last_flush, now>>
    /\ UNCHANGED notBuffer

\* a caller polling ScreenshotBuffer.should_flush
poll_should_flush ==
    /\ retFlag' = should_flush(buffer, last_flush, now)
    /\ retBatch' = <<>>
    /\ lastOp' = "should_flush"
    /\ UNCHANGED <<buffer, duration, max_size, min_flush_size, last_flush, now,
                   framesAdded, addsSinceFlush, addedAt>>
    /\ UNCHANGED notBuffer

\* get_batch that forgets to restart the flush timer
get_batch_keeps_timer(op) ==
    /\ retBatch' = buffer
    /\ buffer' = <<>>
    /\ addedAt' = <<>>
    /\ UNCHANGED last_flush
    /\ addsSinceFlush' = 0
    /\ retFlag' = FALSE
    /\ lastOp' = op
    /\ UNCHANGED <<duration, max_size, min_flush_size, now, framesAdded>>
    /\ UNCHANGED notBuffer

\* the body of ScreenshotBuffer.get_batch, entered through method op
get_batch_as(op) ==
    /\ retBatch' = buffer
    /\ buffer' = <<>>
    /\ addedAt' = <<>>
    /\ last_flush' = now
    /\ addsSinceFlush' = 0
    /\ retFlag' = FALSE
    /\ lastOp' = op
    /\ UNCHANGED <<duration, max_size, min_flush_size, now, framesAdded>>
    /\ UNCHANGED notBuffer

\* ScreenshotBuffer.get_batch
get_batch == get_batch_as("get_batch")

\* ScreenshotBuffer.clear
clear ==
    /\ buffer' = <<>>
    /\ addedAt' = <<>>
    /\ last_flush' = now
    /\ addsSinceFlush' = 0
    /\ retFlag' = FALSE
    /\ retBatch' = <<>>
    /\ lastOp' = "clear"
    /\ UNCHANGED <<duration, max_size, min_flush_size, now, framesAdded>>
    /\ UNCHANGED notBuffer

\* ScreenshotBuffer.force_flush: an empty buffer returns [] at once,
\* otherwise the call is self.get_batch()
force_flush ==
    IF buffer = <<>>
      THEN /\ retBatch' = <<>>
           /\ addsSinceFlush' = 0
           /\ retFlag' = FALSE
           /\ lastOp' = "force_flush"
           /\ UNCHANGED <<buffer, last_flush, duration, max_size,
                          min_flush_size, now, framesAdded, addedAt>>
           /\ UNCHANGED notBuffer
      ELSE get_batch_as("force_flush")

(***************************************************************************)
(* HybridOCR.  Item i of a batch is the pair (path_i, frame_id_i), written *)
(* FrameOf(i).  A text block is a record of its frame_id and its           *)
(* ocr_engine entry ("unset" when the dict has no such key).  An entry of  *)
(* the merged list is None until the merge loop stores a result list.      *)
(***************************************************************************)

FrameOf(i) == 100 + i

NoneEntry == [isNone |-> TRUE, blocks |-> <<>>]

Filled(res) == [isNone |-> FALSE, blocks |-> res]

\* the smaller and the larger of two numbers (Python's min and max)
Min2(a, b) == IF a <= b THEN a ELSE b

Max2(a, b) == IF a >= b THEN a ELSE b

\* max(0.0, min(1.0, ratio)), on ratios written r / RatioDen
clamp_ratio(r) == Max2(0, Min2(RatioDen, r))

\* the split point rounded down instead of up
split_point_floor(n, r) == (n * r) \div RatioDen

\* int(math.ceil(n * self.ratio)) for the ratio r / RatioDen, 0 <= r
split_point(n, r) == (n * r + RatioDen - 1) \div RatioDen

\* enumerate that numbers every sub-batch from its own first position
enumerate_from_zero(items, from, to) ==
    [j \in 1..(to - from + 1) |-> <<j, items[from + j - 1]>>]

\* list(enumerate(items[from-1:to], start=from-1)): the pairs
\* (position in the whole batch, item), positions counted from 1 here
enumerate_slice(items, from, to) ==
    [j \in 1..(to - from + 1) |-> <<from + j - 1, items[from + j - 1]>>]

\* block.setdefault("ocr_engine", label) on every block of one result list
tag_blocks(res, label) ==
    [b \in 1..Len(res) |->
        IF res[b].ocr_engine = "unset"
          THEN [res[b] EXCEPT !.ocr_engine = label]
          ELSE res[b]]

\* one merge loop: for (idx, _), res in zip(items, engine_results):
\*     tag the blocks of res; results[idx] = res
merge_into(acc, items, engine_results, label) ==
    [i \in 1..Len(acc) |->
        IF \E j \in 1..Min2(Len(items), Len(engine_results)) : items[j][1] = i
          THEN LET j == CHOOSE j \in 1..Min2(Len(items), Len(engine_results)) :
                            items[j][1] = i
               IN  Filled(tag_blocks(engine_results[j], label))
          ELSE acc[i]]

\* the result list an engine may produce for the item with frame id f:
\* nothing, a block without an ocr_engine entry, or a block that has one
ItemResult(shape, f) ==
    CASE shape = "empty"  -> <<>>
      [] shape = "plain"  -> <<[frame_id |-> f, ocr_engine |-> "unset"]>>
      [] shape = "tagged" -> <<[frame_id |-> f, ocr_engine |-> "preset"]>>

\* what an engine's process_batch may return for the batch sub: any number
\* of result lists up to one more than the batch has items
EngineReturns(sub) ==
    UNION { { [j \in 1..m |->
                 ItemResult(shapes[j], IF j <= Len(sub) THEN sub[j] ELSE 0)] :
              shapes \in [1..m -> {"empty", "plain", "tagged"}] } :
            m \in 0..(Len(sub) + 1) }

\* the items of a list of (index, item) pairs: [item for _, item in pairs]
ItemsOf(pairs) == [j \in 1..Len(pairs) |-> pairs[j][2]]

\* HybridOCR.__init__
InitHybrid ==
    /\ ratioArg \in (-1)..(RatioDen + 1)
    /\ self_ratio = clamp_ratio(ratioArg)
    /\ hPc = "idle"
    /\ image_paths = <<>>
    /\ primary_items = <<>>
    /\ fallback_items = <<>>
    /\ primary_results = <<>>
    /\ fallback_results = <<>>
    /\ results = <<>>
    /\ primaryCalls = <<>>
    /\ fallbackCalls = <<>>

\* no HybridOCR in use
HybridIdle ==
    /\ ratioArg = 0
    /\ self_ratio = 0
    /\ hPc = "unused"
    /\ image_paths = <<>>
    /\ primary_items = <<>>
    /\ fallback_items = <<>>
    /\ primary_results = <<>>
    /\ fallback_results = <<>>
    /\ results = <<>>
    /\ primaryCalls = <<>>
    /\ fallbackCalls = <<>>

\* HybridOCR.process_batch, lines 29-33: the deterministic split
hybrid_split ==
    /\ hPc = "idle"
    /\ \E n \in 0..MaxItems :
         LET items == [i \in 1..n |-> FrameOf(i)]
             k == split_point(n, self_ratio)
         IN  /\ image_paths' = items
             /\ primary_items' = enumerate_slice(items, 1, k)
             /\ fallback_items' = enumerate_slice(items, k + 1, n)
    /\ hPc' = "primary"
    /\ UNCHANGED <<ratioArg, self_ratio, primary_results, fallback_results,
                   results, primaryCalls, fallbackCalls>>
    /\ UNCHANGED notHybrid

\* line 36: await self.primary.process_batch(...) if primary_items else []
hybrid_primary ==
    /\ hPc = "primary"
    /\ \/ /\ primary_items = <<>>
          /\ primary_results' = <<>>
          /\ hPc' = "fallback"
          /\ UNCHANGED primaryCalls
       \/ /\ primary_items # <<>>
          /\ primaryCalls' = Append(primaryCalls, ItemsOf(primary_items))
          /\ \E r \in EngineReturns(ItemsOf(primary_items)) :
                primary_results' = r
          /\ hPc' = "fallback"
       \/ /\ primary_items # <<>>
          /\ primaryCalls' = Append(primaryCalls, ItemsOf(primary_items))
          /\ primary_results' = <<>>
          /\ hPc' = "raised"
    /\ UNCHANGED <<ratioArg, self_ratio, image_paths, primary_items,
                   fallback_items, fallback_results, results, fallbackCalls>>
    /\ UNCHANGED notHybrid

\* line 37: await self.fallback.process_batch(...) if fallback_items else []
hybrid_fallback ==
    /\ hPc = "fallback"
    /\ \/ /\ fallback_items = <<>>
          /\ fallback_results' = <<>>
          /\ hPc' = "merge"
          /\ UNCHANGED fallbackCalls
       \/ /\ fallback_items # <<>>
          /\ fallbackCalls' = Append(fallbackCalls, ItemsOf(fallback_items))
          /\ \E r \in EngineReturns(ItemsOf(fallback_items)) :
                fallback_results' = r
          /\ hPc' = "merge"
       \/ /\ fallback_items # <<>>
          /\ fallbackCalls' = Append(fallbackCalls, ItemsOf(fallback_items))
          /\ fallback_results' = <<>>
          /\ hPc' = "raised"
    /\ UNCHANGED <<ratioArg, self_ratio, image_paths, primary_items,
                   fallback_items, primary_results, results, primaryCalls>>
    /\ UNCHANGED notHybrid

\* lines 40-52: results = [None] * n, the two merge loops, return results
hybrid_merge ==
    /\ hPc = "merge"
    /\ LET none == [i \in 1..Len(image_paths) |-> NoneEntry]
           afterPrimary ==
               merge_into(none, primary_items, primary_results, "deepseek")
       IN  results' =
               merge_into(afterPrimary, fallback_items, fallback_results, "openai")
    /\ hPc' = "done"
    /\ UNCHANGED <<ratioArg, self_ratio, image_paths, primary_items,
                   fallback_items, primary_results, fallback_results,
                   primaryCalls, fallbackCalls>>
    /\ UNCHANGED notHybrid

NextHybrid ==
    \/ hybrid_split
    \/ hybrid_primary
    \/ hybrid_fallback
    \/ hybrid_merge

(***************************************************************************)
(* DeepSeekOCR.  A transcript is the sequence of its lines, the empty      *)
(* string being the empty sequence; a line is a record of its number and   *)
(* its kind: "text", "heading" (a markdown heading, "# ...") or "blank"    *)
(* (whitespace only).  A text block is a record of its frame_id, its text  *)
(* and its block_type; block_id, normalized_text, confidence and           *)
(* semantic_context are left out.  An item of a batch is a record of its   *)
(* frame_id and of what its image file is: "ok", "missing" (exists() is    *)
(* false) or "unreadable" (Image.open raises).                             *)
(***************************************************************************)

Line(i, kind) == [no |-> i, kind |-> kind]

\* str.strip() is non-empty: some line holds more than whitespace
HasText(lines) == \E i \in 1..Len(lines) : lines[i].kind # "blank"

\* the transcripts str(output).strip() can be, of at most MaxLines lines of
\* the given kinds: stripped, so the first and the last line are not blank
StrippedTranscripts(kinds) ==
    {<<>>} \cup
    UNION { { [i \in 1..len |-> Line(i, ks[i])] :
              ks \in { f \in [1..len -> kinds \cup {"blank"}] :
                         f[1] # "blank" /\ f[len] # "blank" } } :
            len \in 1..MaxLines }

\* text.split('\n'): the empty string is one empty line
split_lines(text) == IF text = <<>> THEN <<Line(1, "blank")>> ELSE text

\* Python's seq[start:end], start and end counted from 0, end clamped
PySlice(seq, start, end) ==
    LET last == Min2(end, Len(seq))
    IN  IF start + 1 > last THEN <<>> ELSE SubSeq(seq, start + 1, last)

\* a section's text after str.strip(): leading and trailing blank lines go
strip_lines(lines) ==
    IF ~HasText(lines) THEN <<>>
    ELSE LET first == CHOOSE i \in 1..Len(lines) :
                         /\ lines[i].kind # "blank"
                         /\ \A j \in 1..(i - 1) : lines[j].kind = "blank"
             last == CHOOSE i \in 1..Len(lines) :
                         /\ lines[i].kind # "blank"
                         /\ \A j \in (i + 1)..Len(lines) : lines[j].kind = "blank"
         IN  SubSeq(lines, first, last)

\* _convert_to_text_blocks that tags a transcript without a heading boundary
\* "mixed", whether it has text or not
convert_to_text_blocks_mixed_without_heading(text, frame_id) ==
    LET lines == text
        IsStart(i) == i = 1 \/ lines[i].kind = "heading"
        starts == SelectSeq([i \in 1..Len(lines) |-> i], IsStart)
        section(k) ==
            SubSeq(lines, starts[k],
                   IF k < Len(starts) THEN starts[k + 1] - 1 ELSE Len(lines))
        all == [k \in 1..Len(starts) |->
                   [frame_id |-> frame_id,
                    text |-> strip_lines(section(k)),
                    block_type |-> "text"]]
        NonEmpty(b) == b.text # <<>>
        blocks == SelectSeq(all, NonEmpty)
    IN  IF Len(starts) <= 1
          THEN <<[frame_id |-> frame_id, text |-> text, block_type |-> "mixed"]>>
          ELSE blocks

\* DeepSeekOCR._convert_to_text_blocks: re.split(r'\n#+\s', text) cuts the
\* transcript before every heading line but the first line; every section
\* with text becomes a "text" block; with no block at all the whole
\* transcript becomes one "mixed" block
convert_to_text_blocks(text, frame_id) ==
    LET lines == text
        IsStart(i) == i = 1 \/ lines[i].kind = "heading"
        starts == SelectSeq([i \in 1..Len(lines) |-> i], IsStart)
        section(k) ==
            SubSeq(lines, starts[k],
                   IF k < Len(starts) THEN starts[k + 1] - 1 ELSE Len(lines))
        all == [k \in 1..Len(starts) |->
                   [frame_id |-> frame_id,
                    text |-> strip_lines(section(k)),
                    block_type |-> "text"]]
        NonEmpty(b) == b.text # <<>>
        blocks == SelectSeq(all, NonEmpty)
    IN  IF blocks = <<>>
          THEN <<[frame_id |-> frame_id, text |-> text, block_type |-> "mixed"]>>
          ELSE blocks

\* _split_batch_results that hands every frame's block the first frame's id
split_batch_results_first_id(combined_text, frame_ids) ==
    LET lines == split_lines(combined_text)
        n == Len(frame_ids)
        lines_per_frame == Max2(1, Len(lines) \div n)
    IN  [idx \in 1..n |->
            LET start_line == (idx - 1) * lines_per_frame
                end_line == IF idx = n THEN Len(lines)
                            ELSE start_line + lines_per_frame
                frame_text == PySlice(lines, start_line, end_line)
            IN  IF HasText(frame_text)
                  THEN <<[frame_id |-> frame_ids[1], text |-> frame_text,
                          block_type |-> "text"]>>
                  ELSE <<>>]

\* _split_batch_results whose last frame gets lines_per_frame lines like the
\* others, so that the remainder goes to no frame
split_batch_results_no_remainder(combined_text, frame_ids) ==
    LET lines == split_lines(combined_text)
        n == Len(frame_ids)
        lines_per_frame == Max2(1, Len(lines) \div n)
    IN  [idx \in 1..n |->
            LET start_line == (idx - 1) * lines_per_frame
                end_line == start_line + lines_per_frame
                frame_text == PySlice(lines, start_line, end_line)
            IN  IF HasText(frame_text)
                  THEN <<[frame_id |-> frame_ids[idx], text |-> frame_text,
                          block_type |-> "text"]>>
                  ELSE <<>>]

\* _split_batch_results with chunks of ceil(len(lines) / len(frame_ids)) lines
split_batch_results_ceil(combined_text, frame_ids) ==
    LET lines == split_lines(combined_text)
        n == Len(frame_ids)
        lines_per_frame == (Len(lines) + n - 1) \div n
    IN  [idx \in 1..n |->
            LET start_line == (idx - 1) * lines_per_frame
                end_line == IF idx = n THEN Len(lines)
                            ELSE start_line + lines_per_frame
                frame_text == PySlice(lines, start_line, end_line)
            IN  IF HasText(frame_text)
                  THEN <<[frame_id |-> frame_ids[idx], text |-> frame_text,
                          block_type |-> "text"]>>
                  ELSE <<>>]

\* DeepSeekOCR._split_batch_results
split_batch_results(combined_text, frame_ids) ==
    LET lines == split_lines(combined_text)
        n == Len(frame_ids)
        lines_per_frame == Max2(1, Len(lines) \div n)
    IN  [idx \in 1..n |->
            LET start_line == (idx - 1) * lines_per_frame
                end_line == IF idx = n THEN Len(lines)
                            ELSE start_line + lines_per_frame
                frame_text == PySlice(lines, start_line, end_line)
            IN  IF HasText(frame_text)
                  THEN <<[frame_id |-> frame_ids[idx], text |-> frame_text,
                          block_type |-> "text"]>>
                  ELSE <<>>]

\* the time at which _rate_limit stamps last_request_time: at once when the
\* interval has passed, else after sleeping the remainder
rate_limit_stamp(t, last, interval) ==
    IF t - last < interval THEN last + interval ELSE t

\* what one _process_via_mlx call may do.  When the model is not loaded yet
\* _ensure_mlx_loaded may raise (and leave it unloaded); otherwise the model
\* is loaded and generation returns a transcript, times out, or raises
process_via_mlx(loaded) ==
    (IF loaded THEN {}
     ELSE {[kind |-> "error", text |-> <<>>, loaded |-> FALSE]})
    \cup {[kind |-> "timeout", text |-> <<>>, loaded |-> TRUE],
          [kind |-> "error", text |-> <<>>, loaded |-> TRUE]}
    \cup {[kind |-> "ok", text |-> t, loaded |-> TRUE] :
            t \in StrippedTranscripts({"text"})}

\* the batches process_batch is called with
Batches ==
    UNION { { [i \in 1..n |-> [frame_id |-> FrameOf(i), file |-> fs[i]]] :
              fs \in [1..n -> {"ok", "missing", "unreadable"}] } :
            n \in 0..MaxBatch }

\* [frame_id for _, frame_id in image_paths]
FrameIds(items) == [i \in 1..Len(items) |-> items[i].frame_id]

\* DeepSeekOCR.__init__, and the call process_batch(batch) about to start
InitDeepSeek ==
    /\ max_retries \in 0..MaxRetries
    /\ min_request_interval \in 1..MaxInterval
    /\ last_request_time = 0
    /\ mlx_loaded \in BOOLEAN
    /\ dsNow \in {0, min_request_interval}
    /\ batch \in Batches
    /\ bPc = "idle"
    /\ processed_results = <<>>
    /\ fbIdx = 0
    /\ ePc = "idle"
    /\ eItem = 0
    /\ attempt = 0
    /\ eRet = <<>>
    /\ sleeps = <<>>
    /\ eOutcomes = <<>>
    /\ rlCalls = 0
    /\ backendCalls = 0
    /\ extractCalls = 0

\* no DeepSeekOCR in use
DeepSeekIdle ==
    /\ max_retries = 0
    /\ min_request_interval = 1
    /\ last_request_time = 0
    /\ mlx_loaded = FALSE
    /\ dsNow = 0
    /\ batch = <<>>
    /\ bPc = "unused"
    /\ processed_results = <<>>
    /\ fbIdx = 0
    /\ ePc = "unused"
    /\ eItem = 0
    /\ attempt = 0
    /\ eRet = <<>>
    /\ sleeps = <<>>
    /\ eOutcomes = <<>>
    /\ rlCalls = 0
    /\ backendCalls = 0
    /\ extractCalls = 0

\* the call self.extract_text(image_paths[i]...) begins
CallExtractText(i) ==
    /\ ePc' = "start"
    /\ eItem' = i
    /\ attempt' = 0
    /\ eRet' = <<>>
    /\ sleeps' = <<>>
    /\ eOutcomes' = <<>>
    /\ extractCalls' = extractCalls + 1

\* await self._rate_limit(): the caller sleeps until the stamp time
RateLimit ==
    /\ dsNow' = rate_limit_stamp(dsNow, last_request_time, min_request_interval)
    /\ last_request_time' = dsNow'
    /\ rlCalls' = rlCalls + 1

\* process_batch that hands a batch of two to extract_text as well
process_batch_begin_pair_as_single ==
    /\ bPc = "idle"
    /\ IF Len(batch) = 0
         THEN /\ bPc' = "done"
              /\ UNCHANGED <<ePc, eItem, attempt, eRet, sleeps, eOutcomes,
                             extractCalls>>
         ELSE IF Len(batch) <= 2
           THEN /\ bPc' = "single"
                /\ CallExtractText(1)
           ELSE /\ bPc' = "combined"
                /\ UNCHANGED <<ePc, eItem, attempt, eRet, sleeps, eOutcomes,
                             extractCalls>>
    /\ UNCHANGED <<max_retries, min_request_interval, last_request_time,
                   mlx_loaded, dsNow, batch, processed_results, fbIdx,
                   rlCalls, backendCalls>>
    /\ UNCHANGED notDeepSeek

\* process_batch, lines 337-348: the empty batch, the batch of one, or the
\* combined path
process_batch_begin ==
    /\ bPc = "idle"
    /\ IF Len(batch) = 0
         THEN /\ bPc' = "done"
              /\ UNCHANGED <<ePc, eItem, attempt, eRet, sleeps, eOutcomes,
                             extractCalls>>
         ELSE IF Len(batch) = 1
           THEN /\ bPc' = "single"
                /\ CallExtractText(1)
           ELSE /\ bPc' = "combined"
                /\ UNCHANGED <<ePc, eItem, attempt, eRet, sleeps, eOutcomes,
                             extractCalls>>
    /\ UNCHANGED <<max_retries, min_request_interval, last_request_time,
                   mlx_loaded, dsNow, batch, processed_results, fbIdx,
                   rlCalls, backendCalls>>
    /\ UNCHANGED notDeepSeek

\* a fallback loop that leaves out the first frame
StartFallback_skips_first ==
    /\ bPc' = "fallback"
    /\ processed_results' = <<>>
    /\ fbIdx' = 2
    /\ CallExtractText(2)

\* process_batch, lines 385-394: the except branch starts the fallback loop
StartFallback ==
    /\ bPc' = "fallback"
    /\ processed_results' = <<>>
    /\ fbIdx' = 1
    /\ CallExtractText(1)

\* process_batch, lines 350-383: rate limit, combine the files, run the
\* backend on the combined image, split the transcript; any exception
\* enters the fallback loop
process_batch_combined ==
    /\ bPc = "combined"
    /\ RateLimit
    /\ LET valid == {i \in 1..Len(batch) : batch[i].file = "ok"}
       IN  \/ \* combine_screenshot_files: no file could be opened
              /\ valid = {}
              /\ StartFallback
              /\ UNCHANGED <<mlx_loaded, backendCalls>>
           \/ \* the combiner raises
              /\ valid # {}
              /\ StartFallback
              /\ UNCHANGED <<mlx_loaded, backendCalls>>
           \/ \* the backend raises on the combined image
              /\ valid # {}
              /\ \E o \in process_via_mlx(mlx_loaded) :
                    /\ o.kind # "ok"
                    /\ mlx_loaded' = o.loaded
              /\ backendCalls' = backendCalls + 1
              /\ StartFallback
           \/ \* the backend returns the combined transcript
              /\ valid # {}
              /\ \E o \in process_via_mlx(mlx_loaded) :
                    /\ o.kind = "ok"
                    /\ mlx_loaded' = o.loaded
                    /\ processed_results' =
                          split_batch_results(o.text, FrameIds(batch))
              /\ backendCalls' = backendCalls + 1
              /\ bPc' = "done"
              /\ UNCHANGED <<fbIdx, ePc, eItem, attempt, eRet, sleeps, eOutcomes,
                             extractCalls>>
    /\ UNCHANGED <<max_retries, min_request_interval, batch>>
    /\ UNCHANGED notDeepSeek

\* extract_text that enters the retry loop whatever the image file is
extract_text_open_no_check ==
    /\ ePc = "start"
    /\ ePc' = "loop"
    /\ UNCHANGED <<max_retries, min_request_interval, last_request_time,
                   mlx_loaded, dsNow, batch, bPc, processed_results, fbIdx,
                   eItem, attempt, eRet, sleeps, eOutcomes, rlCalls,
                   backendCalls, extractCalls>>
    /\ UNCHANGED notDeepSeek

\* extract_text, lines 236-245: a missing or unreadable image returns []
extract_text_open ==
    /\ ePc = "start"
    /\ IF batch[eItem].file = "ok"
         THEN ePc' = "loop"
         ELSE ePc' = "ret"
    /\ UNCHANGED <<max_retries, min_request_interval, last_request_time,
                   mlx_loaded, dsNow, batch, bPc, processed_results, fbIdx,
                   eItem, attempt, eRet, sleeps, eOutcomes, rlCalls, backendCalls,
                   extractCalls>>
    /\ UNCHANGED notDeepSeek

\* `for attempt in range(self.max_retries)` that runs one turn too many
range_exhausted_one_late(a, retries) == a >= retries + 1

\* `for attempt in range(self.max_retries)` has no turn left for attempt a
range_exhausted(a, retries) == a >= retries

\* extract_text, lines 248-301: one turn of the retry loop
extract_text_attempt ==
    /\ ePc = "loop"
    /\ IF range_exhausted(attempt, max_retries)
         THEN \* line 301
              /\ eRet' = <<>>
              /\ ePc' = "ret"
              /\ UNCHANGED <<last_request_time, mlx_loaded, dsNow, attempt,
                             sleeps, eOutcomes, rlCalls, backendCalls>>
         ELSE /\ RateLimit
              /\ backendCalls' = backendCalls + 1
              /\ \E o \in process_via_mlx(mlx_loaded) :
                    /\ mlx_loaded' = o.loaded
                    /\ eOutcomes' = Append(eOutcomes, o)
                    /\ IF o.kind = "ok"
                         THEN /\ eRet' = convert_to_text_blocks(
                                            o.text, batch[eItem].frame_id)
                              /\ ePc' = "ret"
                              /\ UNCHANGED <<attempt, sleeps>>
                         ELSE IF attempt < max_retries - 1
                           THEN \* asyncio.sleep(2 ** attempt) after a
                                \* timeout, asyncio.sleep(1) otherwise
                                /\ sleeps' = Append(sleeps,
                                      IF o.kind = "timeout" THEN 2 ^ attempt ELSE 1)
                                /\ attempt' = attempt + 1
                                /\ ePc' = "slept"
                                /\ UNCHANGED eRet
                           ELSE /\ eRet' = <<>>
                                /\ ePc' = "ret"
                                /\ UNCHANGED <<attempt, sleeps>>
    /\ UNCHANGED <<max_retries, min_request_interval, batch, bPc,
                   processed_results, fbIdx, eItem, extractCalls>>
    /\ UNCHANGED notDeepSeek

\* extract_text, lines 283 and 297: the backoff sleep is over
extract_text_wake ==
    /\ ePc = "slept"
    /\ dsNow' = dsNow + sleeps[Len(sleeps)]
    /\ ePc' = "loop"
    /\ UNCHANGED <<max_retries, min_request_interval, last_request_time,
                   mlx_loaded, batch, bPc, processed_results, fbIdx, eItem,
                   attempt, eRet, sleeps, eOutcomes, rlCalls, backendCalls,
                   extractCalls>>
    /\ UNCHANGED notDeepSeek

\* process_batch, line 341: return [await self.extract_text(...)]
process_batch_single_return ==
    /\ bPc = "single"
    /\ ePc = "ret"
    /\ processed_results' = <<eRet>>
    /\ bPc' = "done"
    /\ ePc' = "idle"
    /\ UNCHANGED <<max_retries, min_request_interval, last_request_time,
                   mlx_loaded, dsNow, batch, fbIdx, eItem, attempt, eRet,
                   sleeps, eOutcomes, rlCalls, backendCalls, extractCalls>>
    /\ UNCHANGED notDeepSeek

\* process_batch, lines 394-400: the fallback loop appends what
\* extract_text returned and goes on to the next frame, or returns
process_batch_fallback_next ==
    /\ bPc = "fallback"
    /\ ePc = "ret"
    /\ processed_results' = Append(processed_results, eRet)
    /\ IF fbIdx < Len(batch)
         THEN /\ fbIdx' = fbIdx + 1
              /\ CallExtractText(fbIdx + 1)
              /\ UNCHANGED bPc
         ELSE /\ bPc' = "done"
              /\ ePc' = "idle"
              /\ UNCHANGED <<fbIdx, eItem, attempt, eRet, sleeps, eOutcomes,
                             extractCalls>>
    /\ UNCHANGED <<max_retries, min_request_interval, last_request_time,
                   mlx_loaded, dsNow, batch, rlCalls, backendCalls>>
    /\ UNCHANGED notDeepSeek

NextBatch ==
    \/ process_batch_begin
    \/ process_batch_combined
    \/ extract_text_open
    \/ extract_text_attempt
    \/ extract_text_wake
    \/ process_batch_single_return
    \/ process_batch_fallback_next

(***************************************************************************)
(* The image combiner.  An image is a record of its identity (its position *)
(* in the input) and its size in pixels; pixel contents are left out.  A   *)
(* call returns an image, which is one of the inputs (id > 0) or a new     *)
(* canvas (id = 0), or raises.  int(x * scale) is computed on the exact    *)
(* quotient: the rounding of the floating-point product is outside the     *)
(* model.  Image.resize raises unless both sides are at least one pixel.   *)
(***************************************************************************)

Strategies == {"vertical_stack", "horizontal_stack", "grid"}

Raised == [kind |-> "raises", id |-> 0, width |-> 0, height |-> 0]

NoResult == [kind |-> "none", id |-> 0, width |-> 0, height |-> 0]

\* Image.new('RGB', (w, h), 'white')
Canvas(w, h) == [kind |-> "image", id |-> 0, width |-> w, height |-> h]

\* the very image object that was passed in
SameImage(img) ==
    [kind |-> "image", id |-> img.id, width |-> img.width,
     height |-> img.height]

RECURSIVE SumSeq(_)
SumSeq(s) == IF s = <<>> THEN 0 ELSE Head(s) + SumSeq(Tail(s))

MaxSeq(s) ==
    CHOOSE m \in {s[i] : i \in 1..Len(s)} : \A i \in 1..Len(s) : s[i] <= m

Widths(sizes) == [i \in 1..Len(sizes) |-> sizes[i].width]

Heights(sizes) == [i \in 1..Len(sizes) |-> sizes[i].height]

\* int(x * (num / den))
scale_dim(x, num, den) == (x * num) \div den

\* img.resize((int(img.width * scale), int(img.height * scale))) for every
\* image, scale being num / den
scale_all(sizes, num, den) ==
    [i \in 1..Len(sizes) |->
        [width |-> scale_dim(sizes[i].width, num, den),
         height |-> scale_dim(sizes[i].height, num, den)]]

\* some resize in the list was asked for an empty image
resize_raises(sizes) ==
    \E i \in 1..Len(sizes) : sizes[i].width < 1 \/ sizes[i].height < 1

\* _vertical_stack, lines 68-76: images wider than max_width are scaled down
fit_to_width(imgs, mw) ==
    [i \in 1..Len(imgs) |->
        IF imgs[i].width > mw
          THEN [width |-> scale_dim(imgs[i].width, mw, imgs[i].width),
                height |-> scale_dim(imgs[i].height, mw, imgs[i].width)]
          ELSE [width |-> imgs[i].width, height |-> imgs[i].height]]

\* _horizontal_stack, lines 135-143: images taller than max_height are
\* scaled down
fit_to_height(imgs, mh) ==
    [i \in 1..Len(imgs) |->
        IF imgs[i].height > mh
          THEN [width |-> scale_dim(imgs[i].width, mh, imgs[i].height),
                height |-> scale_dim(imgs[i].height, mh, imgs[i].height)]
          ELSE [width |-> imgs[i].width, height |-> imgs[i].height]]

\* sum(lengths) + spacing * (len(images) - 1)
stacked(lengths, sp) == SumSeq(lengths) + sp * (Len(lengths) - 1)

\* _vertical_stack
vertical_stack(imgs, mw, mh, sp) ==
    LET first == fit_to_width(imgs, mw)
        target_width == Min2(MaxSeq(Widths(first)), mw)
        total_height == stacked(Heights(first), sp)
        second == scale_all(first, mh, total_height)
    IN  IF resize_raises(first) THEN Raised
        ELSE IF total_height > mh
          THEN IF resize_raises(second) THEN Raised
               ELSE Canvas(target_width, stacked(Heights(second), sp))
          ELSE Canvas(target_width, total_height)

\* _horizontal_stack
horizontal_stack(imgs, mw, mh, sp) ==
    LET first == fit_to_height(imgs, mh)
        target_height == Min2(MaxSeq(Heights(first)), mh)
        total_width == stacked(Widths(first), sp)
        second == scale_all(first, mw, total_width)
    IN  IF resize_raises(first) THEN Raised
        ELSE IF total_width > mw
          THEN IF resize_raises(second) THEN Raised
               ELSE Canvas(stacked(Widths(second), sp), target_height)
          ELSE Canvas(total_width, target_height)

\* the square root rounded down instead of up
floor_sqrt(n) == CHOOSE c \in 0..n : c * c <= n /\ (c + 1) * (c + 1) > n

\* math.ceil(math.sqrt(n))
ceil_sqrt(n) == CHOOSE c \in 0..n : c * c >= n /\ \A d \in 0..(c - 1) : d * d < n

\* math.ceil(a / b)
ceil_div(a, b) == (a + b - 1) \div b

\* _grid_layout: every image is scaled by min(cell_width / width,
\* cell_height / height) to fit its cell
grid_layout(imgs, mw, mh, sp) ==
    LET cols == ceil_sqrt(Len(imgs))
        rows == ceil_div(Len(imgs), cols)
        cell_width == (mw - sp * (cols - 1)) \div cols
        cell_height == (mh - sp * (rows - 1)) \div rows
        scaled == [i \in 1..Len(imgs) |->
                     IF cell_width * imgs[i].height <= cell_height * imgs[i].width
                       THEN [width |-> scale_dim(imgs[i].width, cell_width,
                                                 imgs[i].width),
                             height |-> scale_dim(imgs[i].height, cell_width,
                                                  imgs[i].width)]
                       ELSE [width |-> scale_dim(imgs[i].width, cell_height,
                                                 imgs[i].height),
                             height |-> scale_dim(imgs[i].height, cell_height,
                                                  imgs[i].height)]]
    IN  IF cell_width < 1 \/ cell_height < 1 \/ resize_raises(scaled)
          THEN Raised
          ELSE Canvas(cols * cell_width + sp * (cols - 1),
                      rows * cell_height + sp * (rows - 1))

\* the strategy dispatch of combine_screenshots, lines 43-50
combine_by_strategy(imgs, strat, mw, mh, sp) ==
    IF strat = "vertical_stack" THEN vertical_stack(imgs, mw, mh, sp)
    ELSE IF strat = "horizontal_stack" THEN horizontal_stack(imgs, mw, mh, sp)
    ELSE IF strat = "grid" THEN grid_layout(imgs, mw, mh, sp)
    ELSE Raised

\* combine_screenshots that lays out a single image like any other list
combine_screenshots_no_identity(imgs, strat, mw, mh, sp) ==
    IF imgs = <<>> THEN Raised
    ELSE combine_by_strategy(imgs, strat, mw, mh, sp)

\* combine_screenshots that answers an empty list with an empty canvas
combine_screenshots_blank_on_empty(imgs, strat, mw, mh, sp) ==
    IF imgs = <<>> THEN Canvas(0, 0)
    ELSE IF Len(imgs) = 1 THEN SameImage(imgs[1])
    ELSE combine_by_strategy(imgs, strat, mw, mh, sp)

\* combine_screenshots
combine_screenshots(imgs, strat, mw, mh, sp) ==
    IF imgs = <<>> THEN Raised
    ELSE IF Len(imgs) = 1 THEN SameImage(imgs[1])
    ELSE combine_by_strategy(imgs, strat, mw, mh, sp)

\* the images of the files that Image.open could open, in input order
OpenedImages(imgs, mask) ==
    LET IsOpen(img) == img.id \in mask
    IN  SelectSeq(imgs, IsOpen)

\* combine_screenshot_files: files that cannot be opened are skipped
combine_screenshot_files(imgs, mask, strat, mw, mh, sp) ==
    IF OpenedImages(imgs, mask) = <<>> THEN Raised
    ELSE combine_screenshots(OpenedImages(imgs, mask), strat, mw, mh, sp)

\* the image lists the combiner is called with
ImageLists ==
    UNION { { [i \in 1..n |-> [id |-> i, width |-> ws[i], height |-> hs[i]]] :
              ws \in [1..n -> 1..MaxDim], hs \in [1..n -> 1..MaxDim] } :
            n \in 0..MaxImages }

\* the arguments of one call of the combiner
InitCombine ==
    /\ images \in ImageLists
    /\ strategy \in Strategies
    /\ max_width \in 1..MaxCanvas
    /\ max_height \in 1..MaxCanvas
    /\ spacing \in 0..MaxSpacing
    /\ opened = {}
    /\ combined = NoResult
    /\ cPc = "idle"

\* no combiner call
CombineIdle ==
    /\ images = <<>>
    /\ strategy = "vertical_stack"
    /\ max_width = 1
    /\ max_height = 1
    /\ spacing = 0
    /\ opened = {}
    /\ combined = NoResult
    /\ cPc = "unused"

\* combine_screenshots(images, strategy, max_width, max_height, spacing)
call_combine_screenshots ==
    /\ cPc = "idle"
    /\ cPc' = "combine_screenshots"
    /\ opened' = 1..Len(images)
    /\ combined' = combine_screenshots(images, strategy, max_width,
                                       max_height, spacing)
    /\ UNCHANGED <<images, strategy, max_width, max_height, spacing>>
    /\ UNCHANGED notCombine

\* combine_screenshot_files(paths, ...): any of the files may fail to open
call_combine_screenshot_files ==
    /\ cPc = "idle"
    /\ cPc' = "combine_screenshot_files"
    /\ \E mask \in SUBSET (1..Len(images)) :
          /\ opened' = mask
          /\ combined' = combine_screenshot_files(images, mask, strategy,
                             max_width, max_height, spacing)
    /\ UNCHANGED <<images, strategy, max_width, max_height, spacing>>
    /\ UNCHANGED notCombine

NextCombine ==
    \/ call_combine_screenshots
    \/ call_combine_screenshot_files

(***************************************************************************)
(* One call of DeepSeekOCR._split_batch_results on any transcript.         *)
(***************************************************************************)

\* the texts of at most maxLen lines of the given kinds; the empty sequence
\* is the empty string
Transcripts(maxLen, kinds) ==
    UNION { { [i \in 1..len |-> Line(i, ks[i])] : ks \in [1..len -> kinds] } :
            len \in 0..maxLen }

\* the arguments of the call
InitSplit ==
    /\ sCombinedText \in
          Transcripts(MaxSplitLines, {"text", "heading", "blank"})
    /\ sFrameIds \in { [i \in 1..n |-> FrameOf(i)] : n \in 1..MaxFrames }
    /\ split_results = <<>>
    /\ sPc = "idle"

\* no call of _split_batch_results on its own
SplitIdle ==
    /\ sCombinedText = <<>>
    /\ sFrameIds = <<>>
    /\ split_results = <<>>
    /\ sPc = "unused"

\* self._split_batch_results(combined_text, frame_ids)
call_split_batch_results ==
    /\ sPc = "idle"
    /\ sPc' = "done"
    /\ split_results' = split_batch_results(sCombinedText, sFrameIds)
    /\ UNCHANGED <<sCombinedText, sFrameIds>>
    /\ UNCHANGED notSplit

NextSplit == call_split_batch_results

(***************************************************************************)
(* DeepSeekOCR._rate_limit called by several coroutines of one event loop  *)
(* on one engine.  A coroutine runs without interruption between two       *)
(* awaits: acquiring the lock when it is held, and asyncio.sleep, which    *)
(* lasts at least the time asked for.  The clock does not go backwards.    *)
(***************************************************************************)

Callers == 1..MaxCallers

\* an asyncio.Lock that lets everybody in
lock_always_free(holder) == TRUE

\* self._rate_limit_lock can be acquired without waiting
lock_free(holder) == holder = 0

\* sleep_time = self.min_request_interval - time_since_last (line 93)
rate_limit_sleep_time(t, last, interval) == interval - (t - last)

\* the fields of the engine that _rate_limit does not read or write
dsOther == <<max_retries, mlx_loaded, batch, bPc, processed_results, fbIdx,
             ePc, eItem, attempt, eRet, sleeps, eOutcomes, backendCalls,
             extractCalls>>

\* a fresh engine (last_request_time = 0.0, the clock far beyond it) and
\* callers that have not called yet
InitRateLimit ==
    /\ min_request_interval \in 1..MaxInterval
    /\ last_request_time = 0
    /\ dsNow \in min_request_interval..MaxInterval
    /\ rlCalls = 0
    /\ rlPc = [c \in Callers |-> "idle"]
    /\ rlLock = 0
    /\ rlWakeAt = [c \in Callers |-> 0]
    /\ max_retries = 0
    /\ mlx_loaded = FALSE
    /\ batch = <<>>
    /\ bPc = "unused"
    /\ processed_results = <<>>
    /\ fbIdx = 0
    /\ ePc = "unused"
    /\ eItem = 0
    /\ attempt = 0
    /\ eRet = <<>>
    /\ sleeps = <<>>
    /\ eOutcomes = <<>>
    /\ backendCalls = 0
    /\ extractCalls = 0

\* no concurrent callers
RateLimitIdle ==
    /\ rlPc = <<>>
    /\ rlLock = 0
    /\ rlWakeAt = <<>>

\* _rate_limit calls begun so far
RateCallsBegun == rlCalls + Cardinality({c \in Callers : rlPc[c] # "idle"})

\* _rate_limit, lines 88-96, from the moment caller c holds the lock: it
\* stamps at once, or goes to sleep holding the lock
rate_limit_locked(c) ==
    IF dsNow - last_request_time < min_request_interval
      THEN /\ rlPc' = [rlPc EXCEPT ![c] = "sleeping"]
           /\ rlLock' = c
           /\ rlWakeAt' = [rlWakeAt EXCEPT ![c] =
                 dsNow + rate_limit_sleep_time(dsNow, last_request_time,
                                               min_request_interval)]
           /\ UNCHANGED <<last_request_time, rlCalls>>
      ELSE /\ last_request_time' = dsNow
           /\ rlCalls' = rlCalls + 1
           /\ rlPc' = [rlPc EXCEPT ![c] = "idle"]
           /\ rlLock' = 0
           /\ UNCHANGED rlWakeAt

\* caller c calls _rate_limit: it takes the lock, or waits for it
rate_limit_call(c) ==
    /\ rlPc[c] = "idle"
    /\ RateCallsBegun < MaxRateCalls
    /\ IF lock_free(rlLock)
         THEN rate_limit_locked(c)
         ELSE /\ rlPc' = [rlPc EXCEPT ![c] = "waiting"]
              /\ UNCHANGED <<last_request_time, rlCalls, rlLock, rlWakeAt>>
    /\ UNCHANGED <<min_request_interval, dsNow, dsOther>>
    /\ UNCHANGED notRateLimit

\* the lock was released and the waiting caller c gets it
rate_limit_acquire(c) ==
    /\ rlPc[c] = "waiting"
    /\ lock_free(rlLock)
    /\ rate_limit_locked(c)
    /\ UNCHANGED <<min_request_interval, dsNow, dsOther>>
    /\ UNCHANGED notRateLimit

\* caller c's sleep is over: it stamps and releases the lock (lines 94-96)
rate_limit_wake(c) ==
    /\ rlPc[c] = "sleeping"
    /\ dsNow >= rlWakeAt[c]
    /\ last_request_time' = dsNow
    /\ rlCalls' = rlCalls + 1
    /\ rlPc' = [rlPc EXCEPT ![c] = "idle"]
    /\ rlLock' = 0
    /\ UNCHANGED <<rlWakeAt, min_request_interval, dsNow, dsOther>>
    /\ UNCHANGED notRateLimit

\* time passes
rate_limit_tick ==
    /\ dsNow < MaxClock
    /\ dsNow' = dsNow + 1
    /\ UNCHANGED <<min_request_interval, last_request_time, rlCalls, dsOther>>
    /\ UNCHANGED rateVars
    /\ UNCHANGED notRateLimit

NextRateLimit ==
    \/ \E c \in Callers : rate_limit_call(c)
    \/ \E c \in Callers : rate_limit_acquire(c)
    \/ \E c \in Callers : rate_limit_wake(c)
    \/ rate_limit_tick

(***************************************************************************)
(* One extract_text call on its own: process_batch with a batch of one     *)
(* frame, on an engine that may retry more often than in SpecBatch.        *)
(***************************************************************************)

\* DeepSeekOCR.__init__, and the call process_batch([item]) about to start
InitExtract ==
    /\ max_retries \in 0..MaxExtractRetries
    /\ min_request_interval \in 1..MaxInterval
    /\ last_request_time = 0
    /\ mlx_loaded \in BOOLEAN
    /\ dsNow = min_request_interval
    /\ batch \in { b \in Batches : Len(b) = 1 }
    /\ bPc = "idle"
    /\ processed_results = <<>>
    /\ fbIdx = 0
    /\ ePc = "idle"
    /\ eItem = 0
    /\ attempt = 0
    /\ eRet = <<>>
    /\ sleeps = <<>>
    /\ eOutcomes = <<>>
    /\ rlCalls = 0
    /\ backendCalls = 0
    /\ extractCalls = 0

NextExtract ==
    \/ process_batch_begin
    \/ extract_text_open
    \/ extract_text_attempt
    \/ extract_text_wake
    \/ process_batch_single_return

(***************************************************************************)
(* The lazily loaded model under concurrent callers of one engine.  The    *)
(* coroutines of one event loop are suspended only at an await; between    *)
(* `await self._rate_limit()` and the next await, _process_via_mlx and     *)
(* _ensure_mlx_loaded run without interruption: they hold no await.        *)
(***************************************************************************)

\* an _ensure_mlx_loaded that loads on every call
load_always(loaded) == TRUE

\* _ensure_mlx_loaded, lines 100-101: load unless self._mlx_loaded
load_needed(loaded) == ~loaded

\* the fields of the engine that the loader does not read or write
dsNotLoader == <<max_retries, min_request_interval, last_request_time, dsNow,
                 batch, bPc, processed_results, fbIdx, ePc, eItem, attempt,
                 eRet, sleeps, eOutcomes, rlCalls, extractCalls>>

\* a fresh engine, its model not loaded yet, and callers that have not
\* called yet
InitLoader ==
    /\ mlx_loaded = FALSE
    /\ mlx_model = 0
    /\ loadAttempts = 0
    /\ loadsCompleted = 0
    /\ backendCalls = 0
    /\ ldPc = [c \in Callers |-> "idle"]
    /\ usedModel = [c \in Callers |-> 0]
    /\ max_retries = 0
    /\ min_request_interval = 1
    /\ last_request_time = 0
    /\ dsNow = 0
    /\ batch = <<>>
    /\ bPc = "unused"
    /\ processed_results = <<>>
    /\ fbIdx = 0
    /\ ePc = "unused"
    /\ eItem = 0
    /\ attempt = 0
    /\ eRet = <<>>
    /\ sleeps = <<>>
    /\ eOutcomes = <<>>
    /\ rlCalls = 0
    /\ extractCalls = 0

\* no concurrent callers
LoaderIdle ==
    /\ ldPc = <<>>
    /\ mlx_model = 0
    /\ loadAttempts = 0
    /\ loadsCompleted = 0
    /\ usedModel = <<>>

\* caller c starts an attempt and is suspended in `await self._rate_limit()`
loader_await(c) ==
    /\ ldPc[c] = "idle"
    /\ backendCalls + Cardinality({d \in Callers : ldPc[d] = "awaiting"})
          < MaxLoaderCalls
    /\ ldPc' = [ldPc EXCEPT ![c] = "awaiting"]
    /\ UNCHANGED <<mlx_loaded, backendCalls, mlx_model, loadAttempts,
                   loadsCompleted, usedModel, dsNotLoader>>
    /\ UNCHANGED notLoader

\* caller c resumes and runs _process_via_mlx: _ensure_mlx_loaded loads the
\* model when needed, which may fail and raise, then generation runs on
\* self._mlx_model
loader_process_via_mlx(c) ==
    /\ ldPc[c] = "awaiting"
    /\ ldPc' = [ldPc EXCEPT ![c] = "idle"]
    /\ backendCalls' = backendCalls + 1
    /\ IF load_needed(mlx_loaded)
         THEN /\ loadAttempts' = loadAttempts + 1
              /\ \/ \* mlx_load raises
                    /\ UNCHANGED <<mlx_loaded, mlx_model, loadsCompleted,
                                   usedModel>>
                 \/ \* mlx_load returns the model
                    /\ mlx_loaded' = TRUE
                    /\ mlx_model' = loadAttempts + 1
                    /\ loadsCompleted' = loadsCompleted + 1
                    /\ usedModel' = [usedModel EXCEPT ![c] = loadAttempts + 1]
         ELSE /\ usedModel' = [usedModel EXCEPT ![c] = mlx_model]
              /\ UNCHANGED <<mlx_loaded, mlx_model, loadAttempts,
                             loadsCompleted>>
    /\ UNCHANGED dsNotLoader
    /\ UNCHANGED notLoader

NextLoader ==
    \/ \E c \in Callers : loader_await(c)
    \/ \E c \in Callers : loader_process_via_mlx(c)

(***************************************************************************)
(* _grid_layout image by image: the sizes of the images are inputs, drawn  *)
(* when the loop reaches them; every image is scaled (lines 208-217) and   *)
(* pasted (lines 227-234) on its own, whatever the other images are.       *)
(***************************************************************************)

\* cell_width = (max_width - spacing * (cols - 1)) // cols, and the same
\* for cell_height with rows
grid_cell_size(max, sp, k) == (max - sp * (k - 1)) \div k

\* the size of an image scaled by min(cell_width / width,
\* cell_height / height)
grid_scaled(w, h, cw, ch) ==
    IF cw * h <= ch * w
      THEN [width |-> scale_dim(w, cw, w), height |-> scale_dim(h, cw, w)]
      ELSE [width |-> scale_dim(w, ch, h), height |-> scale_dim(h, ch, h)]

\* lines 228-232: where image idx (counted from 0) of scaled size sw x sh
\* is pasted
grid_paste(idx, cols, cw, ch, sp, sw, sh) ==
    LET row == idx \div cols
        col == idx % cols
    IN  [idx |-> idx, row |-> row, col |-> col,
         x |-> col * (cw + sp) + (cw - sw) \div 2,
         y |-> row * (ch + sp) + (ch - sh) \div 2,
         width |-> sw, height |-> sh]

NoPlacement ==
    [idx |-> -1, row |-> 0, col |-> 0, x |-> 0, y |-> 0, width |-> 0,
     height |-> 0]

\* the arguments of the call
InitGrid ==
    /\ num_images \in 2..MaxGridImages
    /\ gMaxWidth \in 1..MaxGridCanvas
    /\ gMaxHeight \in 1..MaxGridCanvas
    /\ gSpacing \in 0..MaxSpacing
    /\ gCols = 0
    /\ gRows = 0
    /\ gCellW = 0
    /\ gCellH = 0
    /\ gIdx = 0
    /\ gPlaced = NoPlacement
    /\ gCells = {}
    /\ gCanvas = NoResult
    /\ gPc = "idle"

\* no call of _grid_layout on its own
GridIdle ==
    /\ num_images = 0
    /\ gMaxWidth = 1
    /\ gMaxHeight = 1
    /\ gSpacing = 0
    /\ gCols = 0
    /\ gRows = 0
    /\ gCellW = 0
    /\ gCellH = 0
    /\ gIdx = 0
    /\ gPlaced = NoPlacement
    /\ gCells = {}
    /\ gCanvas = NoResult
    /\ gPc = "unused"

\* lines 196-204: the grid and the cell size; a cell without a pixel makes
\* the first resize raise
grid_begin ==
    /\ gPc = "idle"
    /\ gCols' = ceil_sqrt(num_images)
    /\ gRows' = ceil_div(num_images, gCols')
    /\ gCellW' = grid_cell_size(gMaxWidth, gSpacing, gCols')
    /\ gCellH' = grid_cell_size(gMaxHeight, gSpacing, gRows')
    /\ gPc' = IF gCellW' < 1 \/ gCellH' < 1 THEN "raised" ELSE "pasting"
    /\ UNCHANGED <<num_images, gMaxWidth, gMaxHeight, gSpacing, gIdx, gPlaced,
                   gCells, gCanvas>>
    /\ UNCHANGED notGrid

\* the next image, of any size, is scaled to its cell and pasted; a scaled
\* size without a pixel makes resize raise
grid_place ==
    /\ gPc = "pasting"
    /\ gIdx < num_images
    /\ \E w \in 1..MaxDim, h \in 1..MaxDim :
          LET sc == grid_scaled(w, h, gCellW, gCellH)
              at == grid_paste(gIdx, gCols, gCellW, gCellH, gSpacing,
                               sc.width, sc.height)
          IN  IF sc.width < 1 \/ sc.height < 1
                THEN /\ gPc' = "raised"
                     /\ UNCHANGED <<gIdx, gPlaced, gCells>>
                ELSE /\ gPlaced' = at
                     /\ gCells' = gCells \cup {<<at.row, at.col>>}
                     /\ gIdx' = gIdx + 1
                     /\ UNCHANGED gPc
    /\ UNCHANGED <<num_images, gMaxWidth, gMaxHeight, gSpacing, gCols, gRows,
                   gCellW, gCellH, gCanvas>>
    /\ UNCHANGED notGrid

\* lines 220-224 and 245: the canvas that is returned
grid_return ==
    /\ gPc = "pasting"
    /\ gIdx = num_images
    /\ gCanvas' = Canvas(gCols * gCellW + gSpacing * (gCols - 1),
                         gRows * gCellH + gSpacing * (gRows - 1))
    /\ gPc' = "done"
    /\ UNCHANGED <<num_images, gMaxWidth, gMaxHeight, gSpacing, gCols, gRows,
                   gCellW, gCellH, gIdx, gPlaced, gCells>>
    /\ UNCHANGED notGrid

NextGrid ==
    \/ grid_begin
    \/ grid_place
    \/ grid_return

(***************************************************************************)
(* _convert_to_text_blocks on its own, on the transcripts _process_via_mlx *)
(* can hand it: str(output).strip(), so stripped, of up to MaxSplitLines   *)
(* lines of text, headings and blank lines.                                *)
(***************************************************************************)

\* the arguments of the call
InitConvert ==
    /\ cvText \in
          { t \in Transcripts(MaxSplitLines, {"text", "heading", "blank"}) :
              t = <<>> \/ (t[1].kind # "blank" /\ t[Len(t)].kind # "blank") }
    /\ cvFrameId \in { FrameOf(i) : i \in 1..MaxFrames }
    /\ cvBlocks = <<>>
    /\ cvPc = "idle"

\* no call of _convert_to_text_blocks on its own
ConvertIdle ==
    /\ cvText = <<>>
    /\ cvFrameId = FrameOf(1)
    /\ cvBlocks = <<>>
    /\ cvPc = "unused"

\* self._convert_to_text_blocks(result, frame_id)
call_convert_to_text_blocks ==
    /\ cvPc = "idle"
    /\ cvPc' = "done"
    /\ cvBlocks' = convert_to_text_blocks(cvText, cvFrameId)
    /\ UNCHANGED <<cvText, cvFrameId>>
    /\ UNCHANGED notConvert

NextConvert == call_convert_to_text_blocks

(***************************************************************************)
(* Config.  DEFAULT_CONFIG is a dict of dicts; dict.copy() is shallow, so  *)
(* DEFAULT_CONFIG.copy() is a new outer dict whose values are the same     *)
(* inner dict objects as DEFAULT_CONFIG's.  A category of a Config is      *)
(* therefore either shared with DEFAULT_CONFIG (a write through one is     *)
(* seen through the other) or a dict of its own.  Two categories with one  *)
(* key each stand for the five shipped ones.  Every Config has its own     *)
(* config_path; a file is written by the first _load_config and by the     *)
(* save() that ends reset_category and reset_all.                          *)
(***************************************************************************)

\* the literal DEFAULT_CONFIG of config.py, lines 9-56
ShippedDefaults == [capture |-> [fps |-> 1], ocr |-> [batch_size |-> 5]]

Categories == DOMAIN ShippedDefaults

ConfigKeys(category) == DOMAIN ShippedDefaults[category]

ConfigValues == 0..MaxConfigValue

\* the Config of api/server.py (line 16) and one created after it
Configs == {1, 2}

NoFile == [exists |-> FALSE, content |-> <<>>]

\* the user files a config_path may hold: some categories, some of their
\* keys
UserFiles ==
    UNION { { [exists |-> TRUE, content |-> f] :
                f \in { g \in [S -> UNION { [ConfigKeys(c) -> ConfigValues] :
                                              c \in S }] :
                          \A c \in S : DOMAIN g[c] = ConfigKeys(c) } } :
            S \in SUBSET Categories }

\* self.config of a Config whose every category is DEFAULT_CONFIG's dict
AllShared ==
    [created |-> TRUE,
     cats |-> [c \in Categories |->
                 [shared |-> TRUE, own |-> ShippedDefaults[c]]]]

NoConfig == [created |-> FALSE, cats |-> AllShared.cats]

\* Config._deep_merge(base, update) on the contents of the dicts
deep_merge(base, update) ==
    [c \in Categories |->
        [k \in ConfigKeys(c) |->
            IF c \in DOMAIN update /\ k \in DOMAIN update[c]
              THEN update[c][k] ELSE base[c][k]]]

\* Config.get("category.key")
config_get(cfg, defaults, category, key) ==
    IF cfg.cats[category].shared THEN defaults[category][key]
    ELSE cfg.cats[category].own[key]

\* the contents json.dump(self.config) writes
config_dump(cfg, defaults) ==
    [c \in Categories |->
        [k \in ConfigKeys(c) |-> config_get(cfg, defaults, c, k)]]

\* a freshly imported module, no Config yet; the config_path of the first
\* Config holds no file or a user's file, that of the second holds no file
InitConfig ==
    /\ DEFAULT_CONFIG = ShippedDefaults
    /\ configs = [c \in Configs |-> NoConfig]
    /\ settings_file \in
          { f \in [Configs -> {NoFile} \cup UserFiles] : f[2] = NoFile }
    /\ cfgLast = [op |-> "none", c |-> 0, category |-> "", hadFile |-> FALSE]

\* config.py not in use
ConfigIdle ==
    /\ DEFAULT_CONFIG = ShippedDefaults
    /\ configs = [c \in Configs |-> NoConfig]
    /\ settings_file = [c \in Configs |-> NoFile]
    /\ cfgLast = [op |-> "unused", c |-> 0, category |-> "", hadFile |-> FALSE]

\* Config(config_path): _load_config merges the user's file into
\* DEFAULT_CONFIG.copy(), or writes DEFAULT_CONFIG to the missing file
config_init(c) ==
    /\ ~configs[c].created
    /\ configs' = [configs EXCEPT ![c] = AllShared]
    /\ IF settings_file[c].exists
         THEN /\ DEFAULT_CONFIG' =
                    deep_merge(DEFAULT_CONFIG, settings_file[c].content)
              /\ UNCHANGED settings_file
         ELSE /\ settings_file' =
                    [settings_file EXCEPT
                       ![c] = [exists |-> TRUE, content |-> DEFAULT_CONFIG]]
              /\ UNCHANGED DEFAULT_CONFIG
    /\ cfgLast' = [op |-> "init", c |-> c, category |-> "",
                   hadFile |-> settings_file[c].exists]
    /\ UNCHANGED notConfig

\* Config.set("category.key", value)
config_set(c, category, key, value) ==
    /\ configs[c].created
    /\ IF configs[c].cats[category].shared
         THEN /\ DEFAULT_CONFIG' =
                    [DEFAULT_CONFIG EXCEPT ![category][key] = value]
              /\ UNCHANGED configs
         ELSE /\ configs' =
                    [configs EXCEPT ![c].cats[category].own[key] = value]
              /\ UNCHANGED DEFAULT_CONFIG
    /\ cfgLast' = [op |-> "set", c |-> c, category |-> category,
                   hadFile |-> FALSE]
    /\ UNCHANGED settings_file
    /\ UNCHANGED notConfig

\* Config.reset_category(category), the save included; an unknown category
\* changes nothing
reset_category(c, category) ==
    /\ configs[c].created
    /\ IF category \in Categories
         THEN /\ configs' =
                    [configs EXCEPT
                       ![c].cats[category] =
                           [shared |-> FALSE, own |-> DEFAULT_CONFIG[category]]]
              /\ settings_file' =
                    [settings_file EXCEPT
                       ![c] = [exists |-> TRUE,
                               content |->
                                   config_dump(configs'[c], DEFAULT_CONFIG)]]
         ELSE UNCHANGED <<configs, settings_file>>
    /\ cfgLast' = [op |-> "reset_category", c |-> c, category |-> category,
                   hadFile |-> FALSE]
    /\ UNCHANGED DEFAULT_CONFIG
    /\ UNCHANGED notConfig

\* Config.reset_all(), the save included
reset_all(c) ==
    /\ configs[c].created
    /\ configs' = [configs EXCEPT ![c] = AllShared]
    /\ settings_file' =
          [settings_file EXCEPT
             ![c] = [exists |-> TRUE, content |-> DEFAULT_CONFIG]]
    /\ cfgLast' = [op |-> "reset_all", c |-> c, category |-> "",
                   hadFile |-> FALSE]
    /\ UNCHANGED DEFAULT_CONFIG
    /\ UNCHANGED notConfig

NextConfig ==
    \/ \E c \in Configs : config_init(c)
    \/ \E c \in Configs, category \in Categories :
          \E key \in ConfigKeys(category), value \in ConfigValues :
             config_set(c, category, key, value)
    \/ \E c \in Configs, category \in Categories \cup {"unknown"} :
          reset_category(c, category)
    \/ \E c \in Configs : reset_all(c)

NextBuffer ==
    \/ Tick
    \/ add
    \/ poll_should_flush
    \/ get_batch
    \/ clear
    \/ force_flush

\* no ScreenshotBuffer in use
BufferIdle ==
    /\ max_size = 1
    /\ duration = 0
    /\ min_flush_size = 0
    /\ buffer = <<>>
    /\ now = 0
    /\ last_flush = 0
    /\ lastOp = "unused"
    /\ retFlag = FALSE
    /\ retBatch = <<>>
    /\ framesAdded = 0
    /\ addsSinceFlush = 0
    /\ addedAt = <<>>

\* a ScreenshotBuffer on its own
InitSpecBuffer ==
    /\ InitBuffer
    /\ HybridIdle
    /\ DeepSeekIdle
    /\ CombineIdle
    /\ SplitIdle
    /\ RateLimitIdle
    /\ LoaderIdle
    /\ GridIdle
    /\ ConvertIdle
    /\ ConfigIdle

SpecBuffer == InitSpecBuffer /\ [][NextBuffer]_vars

\* a HybridOCR on its own
InitSpecHybrid ==
    /\ InitHybrid
    /\ BufferIdle
    /\ DeepSeekIdle
    /\ CombineIdle
    /\ SplitIdle
    /\ RateLimitIdle
    /\ LoaderIdle
    /\ GridIdle
    /\ ConvertIdle
    /\ ConfigIdle

SpecHybrid == InitSpecHybrid /\ [][NextHybrid]_vars

\* a DeepSeekOCR on its own, one process_batch call
InitSpecBatch ==
    /\ InitDeepSeek
    /\ BufferIdle
    /\ HybridIdle
    /\ CombineIdle
    /\ SplitIdle
    /\ RateLimitIdle
    /\ LoaderIdle
    /\ GridIdle
    /\ ConvertIdle
    /\ ConfigIdle

SpecBatch == InitSpecBatch /\ [][NextBatch]_vars

\* one call of the image combiner
InitSpecCombine ==
    /\ InitCombine
    /\ BufferIdle
    /\ HybridIdle
    /\ DeepSeekIdle
    /\ SplitIdle
    /\ RateLimitIdle
    /\ LoaderIdle
    /\ GridIdle
    /\ ConvertIdle
    /\ ConfigIdle

SpecCombine == InitSpecCombine /\ [][NextCombine]_vars

\* one call of _split_batch_results
InitSpecSplit ==
    /\ InitSplit
    /\ BufferIdle
    /\ HybridIdle
    /\ DeepSeekIdle
    /\ CombineIdle
    /\ RateLimitIdle
    /\ LoaderIdle
    /\ GridIdle
    /\ ConvertIdle
    /\ ConfigIdle

SpecSplit == InitSpecSplit /\ [][NextSplit]_vars

\* concurrent callers of _rate_limit on a fresh engine
InitSpecRateLimit ==
    /\ InitRateLimit
    /\ BufferIdle
    /\ HybridIdle
    /\ CombineIdle
    /\ SplitIdle
    /\ LoaderIdle
    /\ GridIdle
    /\ ConvertIdle
    /\ ConfigIdle

SpecRateLimit == InitSpecRateLimit /\ [][NextRateLimit]_vars

\* one extract_text call
InitSpecExtract ==
    /\ InitExtract
    /\ BufferIdle
    /\ HybridIdle
    /\ CombineIdle
    /\ SplitIdle
    /\ RateLimitIdle
    /\ LoaderIdle
    /\ GridIdle
    /\ ConvertIdle
    /\ ConfigIdle

SpecExtract == InitSpecExtract /\ [][NextExtract]_vars

\* concurrent callers of the backend on a fresh engine
InitSpecLoader ==
    /\ InitLoader
    /\ BufferIdle
    /\ HybridIdle
    /\ CombineIdle
    /\ SplitIdle
    /\ RateLimitIdle
    /\ GridIdle
    /\ ConvertIdle
    /\ ConfigIdle

SpecLoader == InitSpecLoader /\ [][NextLoader]_vars

\* one call of _grid_layout
InitSpecGrid ==
    /\ InitGrid
    /\ BufferIdle
    /\ HybridIdle
    /\ DeepSeekIdle
    /\ CombineIdle
    /\ SplitIdle
    /\ RateLimitIdle
    /\ LoaderIdle
    /\ ConvertIdle
    /\ ConfigIdle

SpecGrid == InitSpecGrid /\ [][NextGrid]_vars

\* one call of _convert_to_text_blocks
InitSpecConvert ==
    /\ InitConvert
    /\ BufferIdle
    /\ HybridIdle
    /\ DeepSeekIdle
    /\ CombineIdle
    /\ SplitIdle
    /\ RateLimitIdle
    /\ LoaderIdle
    /\ GridIdle
    /\ ConfigIdle

SpecConvert == InitSpecConvert /\ [][NextConvert]_vars

\* the Config objects of one process
InitSpecConfig ==
    /\ InitConfig
    /\ BufferIdle
    /\ HybridIdle
    /\ DeepSeekIdle
    /\ CombineIdle
    /\ SplitIdle
    /\ RateLimitIdle
    /\ LoaderIdle
    /\ GridIdle
    /\ ConvertIdle

SpecConfig == InitSpecConfig /\ [][NextConfig]_vars

(***************************************************************************)
(* Properties of ScreenshotBuffer, checked under SpecBuffer.               *)
(***************************************************************************)

\* a step of the model that is a call of one of the methods in ops
CallOf(ops) == lastOp' \in ops /\ vars' # vars

\* C4: after any sequence of add, get_batch, force_flush and clear calls the
\* number of buffered frames never exceeds max_size.
C4_SizeNeverExceedsMaxSize == Len(buffer) <= max_size

\* C4 witness: add() has been called on a buffer that was already full
C4_Witness_AddOnFullBuffer ==
    lastOp = "add" /\ addsSinceFlush > max_size /\ Len(buffer) = max_size

\* C5: add only appends: every frame buffered before the call is still
\* buffered after it, at the same position, and the new frame follows them
\* (so no frame leaves the buffer except through a flush).
C5_AddOnlyAppends ==
    [][CallOf({"add"}) =>
          /\ Len(buffer') = Len(buffer) + 1
          /\ SubSeq(buffer', 1, Len(buffer)) = buffer]_vars

\* the predicate C6 gives for "a flush is due"
C6_DueAsClaimed(buf, lf, t) ==
    \/ Len(buf) >= max_size
    \/ (t - lf >= duration /\ Len(buf) >= min_flush_size)

\* C6 as stated: in every state should_flush() is true exactly when
\* size >= max_size or (elapsed >= duration and size >= min_flush_size), and
\* add() returns that predicate evaluated after the append.
C6_ShouldFlushAsClaimed ==
    /\ should_flush(buffer, last_flush, now)
         <=> C6_DueAsClaimed(buffer, last_flush, now)
    /\ lastOp \in {"add", "should_flush"}
         => (retFlag <=> C6_DueAsClaimed(buffer, last_flush, now))

\* C6 amended: should_flush() is true exactly when the buffer is not empty
\* and (size >= max_size or (elapsed >= duration and size >= min_flush_size));
\* add() and should_flush() return that value for the buffer as it is after
\* the call.
C6_ShouldFlushIffNonEmptyAndDue ==
    /\ should_flush(buffer, last_flush, now)
         <=> (Len(buffer) > 0 /\ C6_DueAsClaimed(buffer, last_flush, now))
    /\ lastOp \in {"add", "should_flush"}
         => (retFlag <=>
               (Len(buffer) > 0 /\ C6_DueAsClaimed(buffer, last_flush, now)))

\* C6 witness: add() returned true for a time-based flush of a buffer that
\* is not full
C6_Witness_AddReturnsTimeBasedFlush ==
    /\ lastOp = "add" /\ retFlag
    /\ Len(buffer) < max_size
    /\ Len(buffer) >= min_flush_size
    /\ now - last_flush >= duration

\* frames come out oldest first: the frame numbers increase
OldestFirst(frames) ==
    \A i \in 1..Len(frames) : \A j \in 1..Len(frames) :
        i < j => frames[i] < frames[j]

\* C7: get_batch, and force_flush on a non-empty buffer, return all buffered
\* frames in insertion order, leave the buffer empty and set last_flush to
\* the current time, whether or not should_flush() holds.
C7_FlushReturnsAllInOrder ==
    [][(CallOf({"get_batch"}) \/ (CallOf({"force_flush"}) /\ buffer # <<>>)) =>
          /\ retBatch' = buffer
          /\ OldestFirst(retBatch')
          /\ buffer' = <<>>
          /\ last_flush' = now']_vars

\* C7 witness: force_flush returned two frames of a buffer that was neither
\* full nor large enough for a time-based flush
C7_Witness_ForceFlushBelowThresholds ==
    /\ lastOp = "force_flush"
    /\ Len(retBatch) = 2
    /\ max_size > 2 /\ min_flush_size > 2
    /\ buffer = <<>>
    /\ last_flush = now /\ now > 0

\* C8: flushing an empty buffer (get_batch or force_flush) returns an empty
\* list and leaves last_flush unchanged.
C8_EmptyFlushKeepsTimer ==
    [][(CallOf({"get_batch", "force_flush"}) /\ buffer = <<>>) =>
          /\ retBatch' = <<>>
          /\ last_flush' = last_flush]_vars

\* C9: once max_size frames have been added to an empty buffer with no flush
\* or clear in between, should_flush() is true and the max_size-th add
\* returned true, whatever the elapsed time and min_flush_size.
C9_FullAfterCapacityAdds ==
    /\ addsSinceFlush >= max_size => should_flush(buffer, last_flush, now)
    /\ (lastOp = "add" /\ addsSinceFlush = max_size) => retFlag

\* C9 witness: the max_size-th add, too early and too small for a
\* time-based flush
C9_Witness_CapacityReachedEarly ==
    /\ lastOp = "add" /\ addsSinceFlush = max_size
    /\ max_size >= 2
    /\ now - last_flush < duration
    /\ min_flush_size > max_size

\* C10: should_flush() is never true while the buffer is empty, and right
\* after get_batch, force_flush or clear the buffer is empty (so
\* should_flush() is false).
C10_EmptyNeverDue ==
    /\ buffer = <<>> => ~should_flush(buffer, last_flush, now)
    /\ (lastOp = "should_flush" /\ buffer = <<>>) => ~retFlag
    /\ lastOp \in {"get_batch", "force_flush", "clear"} =>
          (buffer = <<>> /\ ~should_flush(buffer, last_flush, now))

\* C10 witness: right after a flush of a buffer whose duration and
\* min_flush_size are both 0
C10_Witness_AfterFlushWithZeroThresholds ==
    /\ lastOp = "get_batch" /\ retBatch # <<>>
    /\ buffer = <<>>
    /\ duration = 0 /\ min_flush_size = 0

(***************************************************************************)
(* Properties of HybridOCR, checked under SpecHybrid.                      *)
(***************************************************************************)

\* the engine result and the engine label that belong to position i of the
\* batch: the primary's i-th result for the positions of primary_items, the
\* fallback's for the others
C2_Assigned(i) ==
    LET k == Len(primary_items)
    IN  IF i <= k
          THEN [res |-> primary_results[i], label |-> "deepseek"]
          ELSE [res |-> fallback_results[i - k], label |-> "openai"]

\* entry i of the merged list is filled with the result list its engine
\* produced for item i, each block labelled with the engine unless it
\* already carried a label
C2_EntryIsEngineResult(i) ==
    /\ ~results[i].isNone
    /\ LET a == C2_Assigned(i)
           got == results[i].blocks
       IN  /\ Len(got) = Len(a.res)
           /\ \A b \in 1..Len(got) :
                 /\ got[b].frame_id = a.res[b].frame_id
                 /\ got[b].ocr_engine =
                       (IF a.res[b].ocr_engine = "unset"
                          THEN a.label ELSE a.res[b].ocr_engine)

C3_Ratio ==
    IF ratioArg < 0 THEN 0 ELSE IF ratioArg > RatioDen THEN RatioDen ELSE ratioArg

\* ceil(n * ratio): the least k with k >= n * ratio
C3_K ==
    LET n == Len(image_paths)
    IN  CHOOSE k \in 0..n :
            /\ k * RatioDen >= n * C3_Ratio
            /\ \A m \in 0..n : m * RatioDen >= n * C3_Ratio => k <= m

\* C3: the first ceil(n * ratio) items, in order, go to the primary engine in
\* one call and all the others to the fallback engine in one call; an empty
\* share means no call, so ratio <= 0 never invokes the primary and
\* ratio >= 1 never invokes the fallback.
C3_DeterministicSplit ==
    LET n == Len(image_paths)
        k == C3_K
        toPrimary == IF k > 0 THEN <<SubSeq(image_paths, 1, k)>> ELSE <<>>
        toFallback == IF k < n THEN <<SubSeq(image_paths, k + 1, n)>> ELSE <<>>
    IN  /\ hPc \in {"fallback", "merge", "done", "raised"} =>
              primaryCalls = toPrimary
        /\ hPc \in {"merge", "done"} => fallbackCalls = toFallback
        /\ hPc \in {"idle", "primary"} => primaryCalls = <<>>
        /\ hPc \in {"idle", "primary", "fallback"} => fallbackCalls = <<>>
        /\ ratioArg <= 0 => primaryCalls = <<>>
        /\ ratioArg >= RatioDen => fallbackCalls = <<>>

\* C3 witness: three items at ratio 1/4: ceil(0.75) = 1 item went to the
\* primary engine and the other two to the fallback engine
C3_Witness_CeilingSplit ==
    /\ hPc = "done"
    /\ Len(image_paths) = 3
    /\ ratioArg = 1
    /\ primaryCalls = << <<FrameOf(1)>> >>
    /\ fallbackCalls = << <<FrameOf(2), FrameOf(3)>> >>

(***************************************************************************)
(* Properties of DeepSeekOCR.process_batch, checked under SpecBatch.       *)
(***************************************************************************)

\* the part of C1 about shape: process_batch returns one entry per input
\* item, and every block of entry i carries the frame_id of item i
C1_LengthAndOwnership ==
    bPc = "done" =>
        /\ Len(processed_results) = Len(batch)
        /\ \A i \in 1..Len(batch) :
              \A b \in 1..Len(processed_results[i]) :
                  processed_results[i][b].frame_id = batch[i].frame_id

\* C1: for every batch and every pattern of failures (missing files, a
\* combiner exception, backend exceptions on the combined or on individual
\* calls) process_batch returns exactly n entries, entry i belonging to
\* input item i, and a failed item (here: one whose image file is missing
\* or unreadable) has an empty list at its position.
C1_OneEntryPerItemFailedOnesEmpty ==
    bPc = "done" =>
        /\ Len(processed_results) = Len(batch)
        /\ \A i \in 1..Len(batch) :
              /\ \A b \in 1..Len(processed_results[i]) :
                    processed_results[i][b].frame_id = batch[i].frame_id
              /\ batch[i].file # "ok" => processed_results[i] = <<>>

\* C1 witness: a batch of three went through the fallback loop after the
\* combined call failed, and came back with an empty and a non-empty entry
C1_Witness_FallbackKeepsPositions ==
    /\ bPc = "done"
    /\ Len(batch) = 3
    /\ fbIdx = 3
    /\ Len(processed_results) = 3
    /\ processed_results[1] = <<>>
    /\ processed_results[2] # <<>>
    /\ batch[3].file = "missing"


(***************************************************************************)
(* Properties of the image combiner, checked under SpecCombine.            *)
(***************************************************************************)

\* a combiner call has returned or raised
CombineCalled == cPc \in {"combine_screenshots", "combine_screenshot_files"}

\* the list combine_screenshots received
Passed == OpenedImages(images, opened)

\* _vertical_stack took its rescaling branch (line 87)
VerticalRescaled ==
    /\ CombineCalled
    /\ strategy = "vertical_stack"
    /\ Len(Passed) >= 2
    /\ stacked(Heights(fit_to_width(Passed, max_width)), spacing) > max_height

\* C11, second clause: whenever vertical_stack rescales because the stacked
\* height exceeds max_height, the canvas it returns is at most max_height
\* high.
C11_VerticalRescaleFits ==
    (VerticalRescaled /\ combined.kind = "image")
        => combined.height <= max_height

\* C11: for every non-empty list of images, every strategy and every
\* max_width, max_height and spacing, the image combine_screenshots returns
\* is at most max_width wide and at most max_height high; in particular the
\* canvas of a rescaling vertical_stack is at most max_height high.  (The
\* scaled sizes are truncated, never rounded up, so rounding cannot add to
\* a size.)
C11_OutputWithinMaxSize ==
    /\ (CombineCalled /\ Passed # <<>> /\ combined.kind = "image")
          => /\ combined.width <= max_width
             /\ combined.height <= max_height
    /\ C11_VerticalRescaleFits

\* two images are stacked, the stack is rescaled by max_height / total_height
\* and the canvas is still higher than max_height
C11_Witness_RescaledStackTooHigh ==
    /\ cPc = "combine_screenshots"
    /\ VerticalRescaled
    /\ Len(images) = 2
    /\ combined.kind = "image"
    /\ combined.height > max_height

\* C12: combine_screenshots called with a single image returns that same
\* image unchanged (the same object, with its size), for every strategy and
\* every max_width, max_height and spacing.
C12_SingleImageReturnedUnchanged ==
    (CombineCalled /\ Len(Passed) = 1) => combined = SameImage(Passed[1])

\* a single image larger than max_width x max_height came back as it was
C12_Witness_OversizedSingleImage ==
    /\ cPc = "combine_screenshots"
    /\ Len(images) = 1
    /\ images[1].width > max_width
    /\ images[1].height > max_height
    /\ combined.kind = "image"
    /\ combined.id = images[1].id

\* C13: combine_screenshots called with zero images raises, for every
\* strategy, and combine_screenshot_files raises when none of the files can
\* be opened; neither returns an image.
C13_EmptyInputRaises ==
    (CombineCalled /\ Passed = <<>>) => combined = Raised

\* combine_screenshot_files was given two files, opened none and raised
C13_Witness_NoFileOpens ==
    /\ cPc = "combine_screenshot_files"
    /\ Len(images) = 2
    /\ opened = {}
    /\ combined.kind = "raises"

(***************************************************************************)
(* Properties of DeepSeekOCR.extract_text, checked under SpecBatch, where  *)
(* process_batch calls it for a batch of one and for every frame of the    *)
(* fallback loop.                                                          *)
(***************************************************************************)

\* the extract_text call in progress was given an image file that opens
ImageOpens == eItem \in 1..Len(batch) /\ batch[eItem].file = "ok"

\* what extract_text has returned, against the backend attempts it made
C14_ReturnMatchesAttempts ==
    (ePc = "ret" /\ ImageOpens) =>
        LET k == Len(eOutcomes)
        IN  /\ k <= max_retries
            /\ \A j \in 1..(k - 1) : eOutcomes[j].kind # "ok"
            /\ IF k > 0 /\ eOutcomes[k].kind = "ok"
                 THEN eRet = convert_to_text_blocks(eOutcomes[k].text,
                                                    batch[eItem].frame_id)
                 ELSE k = max_retries /\ eRet = <<>>

\* a step of extract_text makes at most one backend attempt, and acquires
\* the rate limit once when it makes one and not at all otherwise
C14_OneRateLimitPerAttempt ==
    ePc \in {"start", "loop", "slept"} =>
        /\ backendCalls' - backendCalls = Len(eOutcomes') - Len(eOutcomes)
        /\ backendCalls' - backendCalls \in {0, 1}
        /\ rlCalls' - rlCalls = backendCalls' - backendCalls

\* C14: extract_text never raises for a per-item failure: whatever the
\* backend does, a call makes at most max_retries backend attempts, each
\* preceded by one rate-limit acquisition, returns the blocks of the first
\* successful attempt, and returns the empty list once max_retries attempts
\* have failed (at once when max_retries is 0).
C14_RetriesThenEmptyList ==
    /\ []C14_ReturnMatchesAttempts
    /\ [][C14_OneRateLimitPerAttempt]_vars
    /\ [](ePc \in {"idle", "start", "loop", "slept", "ret"})

\* every one of two attempts failed and extract_text returned the empty list
C14_Witness_AllAttemptsFailed ==
    /\ ePc = "ret"
    /\ ImageOpens
    /\ max_retries = 2
    /\ Len(eOutcomes) = 2
    /\ eOutcomes[1].kind = "timeout"
    /\ eOutcomes[2].kind = "error"
    /\ eRet = <<>>

\* C15: when the image file is missing or cannot be opened, extract_text
\* returns the empty list at once: no rate-limit acquisition, no backend
\* call, no retry, no sleep, and last_request_time is left as it was.
C15_BadImageReturnsEmptyAtOnce ==
    [][(ePc = "start" /\ ~ImageOpens) =>
          /\ ePc' = "ret"
          /\ eRet' = <<>>
          /\ UNCHANGED <<rlCalls, backendCalls, attempt, sleeps, eOutcomes,
                         last_request_time, dsNow>>]_vars

\* extract_text returned for a missing file with max_retries > 0 and the
\* rate limiter untouched
C15_Witness_MissingFile ==
    /\ bPc = "single"
    /\ ePc = "ret"
    /\ batch[1].file = "missing"
    /\ max_retries > 0
    /\ eRet = <<>>
    /\ rlCalls = 0
    /\ backendCalls = 0

\* C16: when the local model fails to load on first use, the load error is
\* raised to the caller of extract_text / process_batch at once; the engine
\* does not swallow it and return empty results.  So a process_batch call
\* that used the backend and returned normally has loaded the model.
C16_LoadErrorNotSwallowed ==
    (bPc = "done" /\ backendCalls > 0) => mlx_loaded

\* process_batch returned a list of empty results although every backend
\* call it made failed to load the model
C16_Witness_LoadErrorSwallowed ==
    /\ bPc = "done"
    /\ backendCalls > 0
    /\ ~mlx_loaded
    /\ Len(processed_results) = Len(batch)
    /\ \A i \in 1..Len(batch) : processed_results[i] = <<>>

(***************************************************************************)
(* Properties of DeepSeekOCR.process_batch, checked under SpecBatch.       *)
(***************************************************************************)

\* while the fallback loop runs, extract_text has been called once for each
\* of the first fbIdx frames and the results of the frames before are kept
C19_FallbackInOrder ==
    bPc = "fallback" =>
        /\ eItem = fbIdx
        /\ extractCalls = fbIdx
        /\ Len(processed_results) = fbIdx - 1

\* a process_batch that went through the fallback loop called extract_text
\* once per frame and returns one result per frame
C19_FallbackCoversEveryFrame ==
    (bPc = "done" /\ fbIdx > 0) =>
        /\ extractCalls = Len(batch)
        /\ Len(processed_results) = Len(batch)

\* C19: if any step of the combined path of process_batch raises,
\* process_batch falls back to calling extract_text once for every input
\* frame, in input order; the result at position i is what that call
\* returned (an empty list when it failed), and a failure on one frame does
\* not stop the remaining frames from being processed.
C19_FallbackPerFrame ==
    /\ [][(bPc = "combined" /\ bPc' # "done") =>
             /\ bPc' = "fallback"
             /\ ePc' = "start"
             /\ eItem' = 1
             /\ processed_results' = <<>>]_vars
    /\ []C19_FallbackInOrder
    /\ [][(bPc = "fallback" /\ ePc = "ret") =>
             processed_results' = Append(processed_results, eRet)]_vars
    /\ []C19_FallbackCoversEveryFrame

\* the backend raised on the combined image of three frames; in the
\* fallback the first frame failed every attempt and the two frames after
\* it were still processed, the second one successfully
C19_Witness_FailureDoesNotStopTheRest ==
    /\ bPc = "done"
    /\ Len(batch) = 3
    /\ fbIdx = 3
    /\ batch[1].file = "ok"
    /\ processed_results[1] = <<>>
    /\ processed_results[2] # <<>>
    /\ extractCalls = 3

\* the batch has a frame whose image opens and a frame whose image does not
SomeUnreadable ==
    /\ Len(batch) >= 2
    /\ \E i \in 1..Len(batch) : batch[i].file = "ok"
    /\ \E i \in 1..Len(batch) : batch[i].file # "ok"

\* C20: in a process_batch of n >= 2 frames of which some, not all, image
\* files are missing or unreadable, the result at each such frame's position
\* is empty and no text block carries that frame's frame_id.
C20_UnreadableFrameGetsNothing ==
    (bPc = "done" /\ SomeUnreadable) =>
        \A i \in 1..Len(batch) :
            batch[i].file # "ok" =>
                /\ processed_results[i] = <<>>
                /\ \A j \in 1..Len(processed_results) :
                      \A k \in 1..Len(processed_results[j]) :
                          processed_results[j][k].frame_id # batch[i].frame_id

\* the combined path succeeded on a batch whose second file is unreadable
\* and that frame was handed a share of the transcript
C20_Witness_UnreadableFrameGetsText ==
    /\ bPc = "done"
    /\ fbIdx = 0
    /\ Len(batch) = 2
    /\ batch[1].file = "ok"
    /\ batch[2].file = "unreadable"
    /\ processed_results[2] # <<>>
    /\ processed_results[2][1].frame_id = batch[2].frame_id

(***************************************************************************)
(* Properties of DeepSeekOCR._rate_limit, checked under SpecRateLimit.     *)
(***************************************************************************)

\* a step in which _rate_limit writes last_request_time
Stamps == rlCalls' = rlCalls + 1

\* callers pass one at a time: at most one caller is inside the lock, and
\* it is the one holding it
C17_OneAtATime ==
    /\ Cardinality({c \in Callers : rlPc[c] = "sleeping"}) <= 1
    /\ \A c \in Callers : rlPc[c] = "sleeping" => rlLock = c

\* a caller goes to sleep only when it got the lock less than
\* min_request_interval after the previous stamp, and then for the remainder
C17_DelayedByRemainder ==
    \A c \in Callers :
        (rlPc[c] # "sleeping" /\ rlPc'[c] = "sleeping") =>
            /\ dsNow - last_request_time < min_request_interval
            /\ rlWakeAt'[c] =
                  dsNow + (min_request_interval - (dsNow - last_request_time))

\* C17: whatever the number of concurrent callers of one engine and the
\* interleaving at the awaits, two consecutive updates of last_request_time
\* by _rate_limit are at least min_request_interval apart; the lock is held
\* across the sleep, so callers pass one at a time; a caller that gets its
\* turn less than min_request_interval after the previous stamp is delayed
\* by the remainder, and a later caller, or the first one on a fresh
\* engine, is not delayed.
C17_MinimumSpacing ==
    /\ [][(Stamps /\ rlCalls >= 1) =>
             last_request_time' - last_request_time >= min_request_interval]_vars
    /\ []C17_OneAtATime
    /\ [][C17_DelayedByRemainder]_vars
    /\ [][(Stamps /\ rlCalls = 0) => last_request_time' = dsNow]_vars

\* with an interval of 2 the first caller stamped at once, the second one,
\* arriving at the same moment, stamped a whole interval later, and a third
\* call is waiting for its turn
C17_Witness_SecondCallerDelayed ==
    /\ min_request_interval = 2
    /\ rlCalls = 2
    /\ last_request_time = 4
    /\ dsNow = 4
    /\ \E c \in Callers : rlPc[c] = "waiting"

(***************************************************************************)
(* Properties of DeepSeekOCR._split_batch_results, checked under SpecSplit. *)
(***************************************************************************)

\* lines of the transcript, as text.split('\n') counts them
C18_L == Len(split_lines(sCombinedText))

\* the lines frame idx gets when the frames get c lines each, in input
\* order, and the last frame gets all the lines that remain
C18_Chunk(idx, c) ==
    LET lines == split_lines(sCombinedText)
        first == (idx - 1) * c + 1
        last == IF idx = Len(sFrameIds) THEN Len(lines)
                ELSE Min2(idx * c, Len(lines))
    IN  IF first > last THEN <<>>
        ELSE [i \in 1..(last - first + 1) |-> lines[first + i - 1]]

\* the result holds, for every frame, one block with that frame's chunk of
\* c lines, or nothing when the chunk has no text
C18_SplitIntoChunksOf(c) ==
    sPc = "done" =>
        /\ Len(split_results) = Len(sFrameIds)
        /\ \A idx \in 1..Len(sFrameIds) :
              split_results[idx] =
                  IF HasText(C18_Chunk(idx, c))
                    THEN <<[frame_id |-> sFrameIds[idx],
                            text |-> C18_Chunk(idx, c),
                            block_type |-> "text"]>>
                    ELSE <<>>

\* C18 as claimed: _split_batch_results divides a transcript of L lines
\* among n frames in contiguous chunks of ceil(L / n) lines each, in input
\* order, the final frame receiving the remaining lines.
C18_ChunksOfCeiling ==
    C18_SplitIntoChunksOf(ceil_div(C18_L, Len(sFrameIds)))

\* C18 as amended: _split_batch_results divides a transcript of L lines
\* among n frames in contiguous chunks of max(1, floor(L / n)) lines each,
\* in input order, the final frame receiving all the remaining lines.
C18_ChunksOfFloor ==
    C18_SplitIntoChunksOf(Max2(1, C18_L \div Len(sFrameIds)))

\* three lines of text for two frames: one line for the first frame, two
\* for the second
C18_Witness_ThreeLinesTwoFrames ==
    /\ sPc = "done"
    /\ C18_L = 3
    /\ Len(sFrameIds) = 2
    /\ \A i \in 1..3 : sCombinedText[i].kind = "text"
    /\ Len(split_results[1][1].text) = 1
    /\ Len(split_results[2][1].text) = 2

(***************************************************************************)
(* Properties of the retry loop of extract_text, checked under             *)
(* SpecExtract.  A backend outcome of kind "timeout" is a                  *)
(* requests.exceptions.Timeout; kind "error" is any other exception: a     *)
(* connection failure, a malformed response, a failed model load.          *)
(***************************************************************************)

\* C21: in extract_text, after a failed attempt with 0-based index a that
\* is not the last allowed attempt the engine waits 2^a seconds before the
\* next attempt, after a timeout and after any other failure alike; it does
\* not sleep after the final failed attempt.
C21_ExponentialBackoff ==
    ImageOpens =>
        /\ \A k \in 1..Len(sleeps) : sleeps[k] = 2 ^ (k - 1)
        /\ ePc = "slept" => Len(sleeps) = Len(eOutcomes)
        /\ (ePc = "ret" /\ eOutcomes # <<>>) =>
               Len(sleeps) = Len(eOutcomes) - 1

\* the second of three allowed attempts failed with an error that is not a
\* timeout and the engine slept one second, not two
C21_Witness_FixedWaitAfterError ==
    /\ ImageOpens
    /\ max_retries = 3
    /\ ePc = "slept"
    /\ Len(eOutcomes) = 2
    /\ eOutcomes[2].kind = "error"
    /\ sleeps = <<1, 1>>

\* C22: a permanent backend error in extract_text (a failure that is not a
\* timeout, such as a malformed response) is not retried: after the first
\* such failure no further backend attempt is made for the item and the
\* empty list is returned.
C22_ErrorNotRetried ==
    ImageOpens =>
        /\ \A j \in 1..(Len(eOutcomes) - 1) : eOutcomes[j].kind # "error"
        /\ (eOutcomes # <<>> /\ eOutcomes[Len(eOutcomes)].kind = "error") =>
               (ePc = "ret" /\ eRet = <<>>)

\* the backend raised an error that is not a timeout, was called again and
\* then returned a transcript
C22_Witness_ErrorRetried ==
    /\ ImageOpens
    /\ ePc = "ret"
    /\ Len(eOutcomes) = 2
    /\ eOutcomes[1].kind = "error"
    /\ eOutcomes[2].kind = "ok"
    /\ eRet # <<>>

(***************************************************************************)
(* Properties of the lazily loaded model, checked under SpecLoader.        *)
(***************************************************************************)

\* the model every generation ran on is the one the engine holds
C23_SameModel ==
    /\ loadsCompleted <= 1
    /\ mlx_loaded <=> loadsCompleted = 1
    /\ mlx_loaded => mlx_model # 0
    /\ \A c \in Callers : usedModel[c] \in {0, mlx_model}

\* C23: with coroutines suspended only at awaits, whatever the interleaving
\* of the concurrent calls on one engine, the model loader completes at
\* most once; once _mlx_loaded is true no call loads again and all calls
\* use the same model.
C23_LoadedAtMostOnce ==
    /\ []C23_SameModel
    /\ [][mlx_loaded => /\ loadAttempts' = loadAttempts
                        /\ mlx_model' = mlx_model]_vars

\* both callers were suspended before the model was loaded; the first load
\* failed, the second caller loaded the model and the first one then ran on
\* that model without loading
C23_Witness_TwoCallersOneModel ==
    /\ mlx_loaded
    /\ loadAttempts = 2
    /\ loadsCompleted = 1
    /\ mlx_model = 2
    /\ backendCalls = 3
    /\ \A c \in Callers : c <= 2 => usedModel[c] = 2

(***************************************************************************)
(* C24  The grid strategy on n >= 2 images uses cols = ceil(sqrt(n))       *)
(* columns and rows = ceil(n / cols) rows, so cols * rows >= n; image i    *)
(* goes to cell (i div cols, i mod cols), distinct images to distinct      *)
(* cells; every scaled image is no larger than its cell and centred in     *)
(* it; the canvas is cols * cell_width + spacing * (cols - 1) wide and     *)
(* rows * cell_height + spacing * (rows - 1) high.                         *)
(***************************************************************************)
C24_GridShape ==
    /\ gCols * gCols >= num_images
    /\ (gCols - 1) * (gCols - 1) < num_images
    /\ gRows * gCols >= num_images
    /\ (gRows - 1) * gCols < num_images

C24_PlacedInItsCell ==
    LET left == gPlaced.x - gPlaced.col * (gCellW + gSpacing)
        top == gPlaced.y - gPlaced.row * (gCellH + gSpacing)
    IN  /\ gPlaced.idx = gIdx - 1
        /\ gPlaced.row = gPlaced.idx \div gCols
        /\ gPlaced.col = gPlaced.idx % gCols
        /\ gPlaced.row < gRows
        /\ gPlaced.width <= gCellW
        /\ gPlaced.height <= gCellH
        /\ left >= 0
        /\ top >= 0
        /\ (gCellW - gPlaced.width - left) - left \in {0, 1}
        /\ (gCellH - gPlaced.height - top) - top \in {0, 1}

C24_GridLayout ==
    gPc \in {"pasting", "done"} =>
        /\ C24_GridShape
        /\ gIdx > 0 => C24_PlacedInItsCell
        /\ Cardinality(gCells) = gIdx
        /\ gPc = "done" =>
              /\ gIdx = num_images
              /\ gCanvas = Canvas(gCols * gCellW + gSpacing * (gCols - 1),
                                  gRows * gCellH + gSpacing * (gRows - 1))

\* five images in a grid of three columns and two rows; the last one is
\* lower than its cell and sits in the middle of it
C24_Witness_FiveImagesInGrid ==
    /\ gPc = "done"
    /\ num_images = 5
    /\ gCols = 3
    /\ gRows = 2
    /\ gSpacing = 1
    /\ gPlaced.row = 1
    /\ gPlaced.col = 1
    /\ gPlaced.height < gCellH
    /\ gPlaced.y > gCellH + gSpacing

(***************************************************************************)
(* C25  In the list _split_batch_results returns, position i holds exactly *)
(* one text block, carrying frame_ids[i] and the chunk of frame i as its   *)
(* text, when that chunk has text that is not whitespace, and the empty    *)
(* list otherwise; never more than one block, never another frame's id.    *)
(***************************************************************************)
C25_OneBlockWithOwnFrameId ==
    sPc = "done" =>
        /\ Len(split_results) = Len(sFrameIds)
        /\ \A idx \in 1..Len(sFrameIds) :
              LET chunk == C18_Chunk(idx, Max2(1, C18_L \div Len(sFrameIds)))
                  blocks == split_results[idx]
              IN  /\ Len(blocks) <= 1
                  /\ Len(blocks) = 1 <=> HasText(chunk)
                  /\ \A b \in 1..Len(blocks) :
                        /\ blocks[b].frame_id = sFrameIds[idx]
                        /\ blocks[b].text = chunk
                        /\ blocks[b].block_type = "text"

\* three frames, the chunk of the second one blank: the first and the third
\* get a block with their own id, the second gets the empty list
C25_Witness_BlankChunkBetweenTexts ==
    /\ sPc = "done"
    /\ Len(sFrameIds) = 3
    /\ Len(split_results[1]) = 1
    /\ split_results[2] = <<>>
    /\ Len(split_results[3]) = 1
    /\ split_results[3][1].frame_id = sFrameIds[3]
    /\ split_results[3][1].frame_id # split_results[1][1].frame_id

(***************************************************************************)
(* C26  When nothing fails, process_batch on n >= 2 frames acquires the    *)
(* rate limit exactly once, runs the backend exactly once and never calls  *)
(* extract_text; on one frame it delegates to a single extract_text call;  *)
(* on no frame it returns [] without touching rate limiter or backend.     *)
(***************************************************************************)
C26_NothingFailed ==
    /\ fbIdx = 0
    /\ \A k \in 1..Len(eOutcomes) : eOutcomes[k].kind = "ok"
    /\ \A i \in 1..Len(batch) : batch[i].file = "ok"

C26_OneInferencePerBatch ==
    /\ (bPc = "combined" \/ (bPc = "done" /\ Len(batch) >= 2 /\ fbIdx = 0)) =>
          extractCalls = 0
    /\ (bPc = "done" /\ C26_NothingFailed) =>
          /\ Len(batch) >= 2 =>
                /\ rlCalls = 1
                /\ backendCalls = 1
                /\ extractCalls = 0
                /\ Len(processed_results) = Len(batch)
    /\ (bPc = "done" /\ Len(batch) = 1) =>
          /\ extractCalls = 1
          /\ processed_results = <<eRet>>
          /\ rlCalls = Len(eOutcomes)
          /\ backendCalls = Len(eOutcomes)
    /\ (bPc = "done" /\ Len(batch) = 0) =>
          /\ processed_results = <<>>
          /\ rlCalls = 0
          /\ backendCalls = 0
          /\ extractCalls = 0

\* three frames answered by one inference on the combined image
C26_Witness_ThreeFramesOneInference ==
    /\ bPc = "done"
    /\ Len(batch) = 3
    /\ C26_NothingFailed
    /\ backendCalls = 1
    /\ rlCalls = 1
    /\ extractCalls = 0
    /\ \E i \in 1..3 : processed_results[i] # <<>>

\* the lines of the transcript before which re.split(r'\n#+\s', text) cuts:
\* the heading lines other than the first line
C27_Boundaries == {i \in 2..Len(cvText) : cvText[i].kind = "heading"}

\* the k-th section of the transcript, without the blank lines at its end
C27_Section(k) ==
    LET starts == {1} \cup C27_Boundaries
        first == CHOOSE x \in starts :
                    Cardinality({y \in starts : y < x}) = k - 1
        after == {y \in starts : y > first}
        end == IF after = {} THEN Len(cvText)
               ELSE (CHOOSE y \in after : \A z \in after : y <= z) - 1
        last == CHOOSE x \in first..end :
                    /\ cvText[x].kind # "blank"
                    /\ \A z \in (x + 1)..end : cvText[z].kind = "blank"
    IN  SubSeq(cvText, first, last)

\* one "text" block per section, in order, holding the section
C27_OneTextBlockPerSection ==
    /\ Len(cvBlocks) = 1 + Cardinality(C27_Boundaries)
    /\ \A k \in 1..Len(cvBlocks) :
          cvBlocks[k] = [frame_id |-> cvFrameId, text |-> C27_Section(k),
                         block_type |-> "text"]

C27_OneMixedBlock ==
    cvBlocks = <<[frame_id |-> cvFrameId, text |-> cvText,
                  block_type |-> "mixed"]>>

\* C27 as claimed: a transcript with no markdown heading boundary becomes
\* exactly one block of type "mixed" holding the entire transcript; a
\* transcript with heading boundaries yields one block of type "text" per
\* non-empty section.
C27_MixedWithoutHeading ==
    cvPc = "done" =>
        IF C27_Boundaries = {} THEN C27_OneMixedBlock
        ELSE C27_OneTextBlockPerSection

\* C27 as amended: a transcript with no text at all becomes exactly one
\* block of type "mixed" holding the entire (empty) transcript; every other
\* transcript, with heading boundaries or without, yields one block of type
\* "text" per non-empty section, so that a transcript with text and no
\* heading boundary becomes one "text" block.
C27_MixedOnlyWithoutText ==
    cvPc = "done" =>
        IF ~HasText(cvText) THEN C27_OneMixedBlock
        ELSE C27_OneTextBlockPerSection

\* two lines of plain text, no heading: one block, tagged "text"
C27_Witness_PlainTextTaggedText ==
    /\ cvPc = "done"
    /\ Len(cvText) = 2
    /\ C27_Boundaries = {}
    /\ Len(cvBlocks) = 1
    /\ cvBlocks[1].block_type = "text"
    /\ cvBlocks[1].text = cvText

\* every key of the category reads as shipped through Config c
C28_ReadsShipped(c, category) ==
    \A key \in ConfigKeys(category) :
        config_get(configs[c], DEFAULT_CONFIG, category, key)
            = ShippedDefaults[category][key]

(***************************************************************************)
(* C28  Config.reset_all() and Config.reset_category(c) restore the        *)
(* shipped defaults: after any sequence of set() calls (or after loading a *)
(* user file that overrides values) reset_all() makes get(k) return the    *)
(* original default for every default key, reset_category(c) for every key *)
(* of category c; and set() on one Config never changes what another,      *)
(* freshly created Config (no user file at its path) reports.              *)
(***************************************************************************)
C28_ResetRestoresShippedDefaults ==
    /\ cfgLast.op = "reset_all" =>
          \A category \in Categories : C28_ReadsShipped(cfgLast.c, category)
    /\ (cfgLast.op = "reset_category" /\ cfgLast.category \in Categories) =>
          C28_ReadsShipped(cfgLast.c, cfgLast.category)
    /\ (cfgLast.op = "init" /\ ~cfgLast.hadFile) =>
          \A category \in Categories : C28_ReadsShipped(cfgLast.c, category)

\* Config 1, created without a user file, has just been reset and still
\* reads fps = 0, the value set() stored, where 1 is shipped
C28_Witness_ResetKeepsSetValue ==
    /\ cfgLast.op = "reset_all"
    /\ cfgLast.c = 1
    /\ ~configs[2].created
    /\ config_get(configs[1], DEFAULT_CONFIG, "capture", "fps") = 0
    /\ ShippedDefaults["capture"]["fps"] = 1
    /\ DEFAULT_CONFIG["capture"]["fps"] = 0

\* a frame has been in the buffer for at least duration seconds
C29_FrameHeldForDuration ==
    /\ buffer # <<>>
    /\ now - addedAt[1] >= duration

C30_LinesOf(idx) ==
    UNION { { split_results[idx][b].text[k].no :
                k \in 1..Len(split_results[idx][b].text) } :
            b \in 1..Len(split_results[idx]) }

(***************************************************************************)
(* C30  For every transcript and every n >= 1 frame ids, fewer lines than  *)
(* frames included, the line ranges _split_batch_results assigns to the    *)
(* frames are contiguous, in input order, pairwise disjoint and cover every *)
(* line of the transcript exactly once: no line with text is dropped or    *)
(* attributed to two frames (a range of blank lines only yields no block). *)
(***************************************************************************)
C30_LineRangesPartitionTranscript ==
    sPc = "done" =>
        LET lines == split_lines(sCombinedText)
            n == Len(sFrameIds)
        IN  /\ Len(split_results) = n
            /\ \A idx \in 1..n : \A b \in 1..Len(split_results[idx]) :
                  LET text == split_results[idx][b].text
                  IN  \A k \in 1..Len(text) :
                         /\ text[k].no = text[1].no + k - 1
                         /\ text[k].no \in 1..Len(lines)
                         /\ text[k] = lines[text[k].no]
            /\ \A i \in 1..n : \A j \in 1..n :
                  i < j => \A x \in C30_LinesOf(i) : \A y \in C30_LinesOf(j) :
                              x < y
            /\ \A x \in 1..Len(lines) :
                  lines[x].kind # "blank" =>
                      Cardinality({idx \in 1..n : x \in C30_LinesOf(idx)}) = 1

\* two lines of text for three frames: a line each for the first two, none
\* for the third
C30_Witness_FewerLinesThanFrames ==
    /\ sPc = "done"
    /\ Len(sFrameIds) = 3
    /\ Len(split_lines(sCombinedText)) = 2
    /\ C30_LinesOf(1) = {1}
    /\ C30_LinesOf(2) = {2}
    /\ split_results[3] = <<>>

====
